---------------------------- MODULE Spec2Model ----------------------------
(***************************************************************************)
(* A model of the numerical core of CHAP (the Channel Annotation Package): *)
(*   - AbstractProbePathFinder: its constructor and                        *)
(*     findMinimalFreeDistance()                                           *)
(*   - BasisSpline::evaluate() and the Cox-de Boor recursion               *)
(*   - AbstractCubicSplineInterp: knot vector and system assembly          *)
(*   - MolecularPath: checkIfInside() and sampleArcLength()                *)
(*                                                                         *)
(* The C++ type real is modelled by exact fractions <<num, den>> with      *)
(* den >= 0.  den = 0 encodes the IEEE-754 non-finite values: <<1, 0>> is  *)
(* +infinity, <<-1, 0>> is -infinity and <<0, 0>> is NaN.  Rounding is not *)
(* modelled: every finite operation is exact.                              *)
(*                                                                         *)
(* Knots, abscissas and lengths are drawn from an integer grid.  One grid  *)
(* unit of the knot axis stands for std::numeric_limits<real>::epsilon(),  *)
(* so that knot spacings at, below and above machine epsilon all occur.    *)
(***************************************************************************)
EXTENDS Integers, Sequences, FiniteSets, TLC

(***************************************************************************)
(* Bounds of the model.                                                    *)
(***************************************************************************)
MaxAtoms == 2
MaxDist == 1
MaxVdwRadius == 1
MaxProbeRadius == 2
MaxParamValue == 1
MaxKnots == 3
MaxKnot == 4
MaxDegree == 3
MaxArc == 1
MaxS == 1
MaxRadius == 2
MaxRho == 4
MaxIds == 1
MaxMargin == 1
MaxPoints == 3
MaxExtrap == 1
MaxPositions == 2
MaxFrames == 2
MaxTopAtoms == 2
MaxData == 3
MaxAbscissa == 4
MaxValue == 1
MaxMass == 2
MaxCoord == 1
MaxState == 2
MaxCost == 2
MaxCoolingIter == 3
MaxCostSamples == 2
MaxTol == 1
MaxProbeSteps == 2
MaxFreeDistance == 1
MaxAtomsNr == 3
MaxResind == 1

\* std::numeric_limits<real>::epsilon(), in grid units of the knot axis
Epsilon == 1

(***************************************************************************)
(* Arithmetic of the type real.                                            *)
(***************************************************************************)
Abs(a) == IF a < 0 THEN -a ELSE a

Sign(a) == IF a < 0 THEN -1 ELSE IF a > 0 THEN 1 ELSE 0

RECURSIVE GCD(_, _)
GCD(a, b) == IF b = 0 THEN a ELSE GCD(b, a % b)

Norm(n, d) ==
    IF d = 0 THEN <<Sign(n), 0>>
    ELSE LET g == GCD(Abs(n), Abs(d))
             s == Sign(d)
         IN  <<(s * n) \div g, Abs(d) \div g>>

R(n) == <<n, 1>>

Zero == <<0, 1>>

One == <<1, 1>>

NaN == <<0, 0>>

Infinity == <<1, 0>>

IsFinite(a) == a[2] # 0

IsNaN(a) == a = NaN

RNeg(a) == <<-a[1], a[2]>>

RAdd(a, b) ==
    IF IsFinite(a) /\ IsFinite(b) THEN Norm(a[1] * b[2] + b[1] * a[2], a[2] * b[2])
    ELSE IF IsNaN(a) \/ IsNaN(b) THEN NaN
    ELSE IF IsFinite(a) THEN b
    ELSE IF IsFinite(b) THEN a
    ELSE IF a = b THEN a ELSE NaN

RSub(a, b) == RAdd(a, RNeg(b))

RMul(a, b) ==
    IF IsFinite(a) /\ IsFinite(b) THEN Norm(a[1] * b[1], a[2] * b[2])
    ELSE IF IsNaN(a) \/ IsNaN(b) THEN NaN
    ELSE <<Sign(a[1]) * Sign(b[1]), 0>>

RDiv(a, b) ==
    IF IsFinite(a) /\ IsFinite(b) THEN Norm(a[1] * b[2], a[2] * b[1])
    ELSE IF IsNaN(a) \/ IsNaN(b) THEN NaN
    ELSE IF IsFinite(a) THEN Zero
    ELSE IF IsFinite(b) THEN <<a[1] * (IF b[1] < 0 THEN -1 ELSE 1), 0>>
    ELSE NaN

RLt(a, b) ==
    /\ ~IsNaN(a)
    /\ ~IsNaN(b)
    /\ IF IsFinite(a) /\ IsFinite(b) THEN a[1] * b[2] < b[1] * a[2]
       ELSE IF IsFinite(a) THEN b[1] > 0
       ELSE IF IsFinite(b) THEN a[1] < 0
       ELSE a[1] < b[1]

RLe(a, b) == ~IsNaN(a) /\ ~IsNaN(b) /\ (a = b \/ RLt(a, b))

Sqrt(d2) == R(CHOOSE r \in 0..d2 : r * r = d2)

(***************************************************************************)
(* State.                                                                  *)
(***************************************************************************)
VARIABLES
    \* AbstractProbePathFinder: constructor
    params,               \* the parameter map handed to the constructor
    ctorPc,               \* position of the constructor
    ctorAssigned,         \* parameter keys whose member has been assigned
    probeStepLength_,
    maxProbeRadius_,
    maxProbeSteps_,
    nbhCutoff,            \* cutoff of nbh_, -1 before setCutoff()
    \* AbstractProbePathFinder: findMinimalFreeDistance()
    probeRadius_,
    vdwRadii_,            \* van-der-Waals radius by reference index
    atomDist,             \* distance of the probe to each reference atom
    fdPc,                 \* position of findMinimalFreeDistance()
    enumerated,           \* the pairs the pair search enumerates, in order
    pairs,                \* the pairs not yet returned by findNextPair()
    minimalFreeDistance,
    \* BasisSpline
    bsKnotVector,         \* argument knotVector of evaluate()
    bsDegree,             \* argument degree
    bsInterval,           \* argument interval
    bsEvalPoint,          \* argument evalPoint
    evalPoint_,
    knotVector_,
    bsValue,              \* the value evaluate() returned
    bsRecursed,           \* whether evaluate() called recursion()
    bsPc,                 \* position of evaluate()
    \* MolecularPath
    mpPc,                 \* "new", then "constructed"
    openingLo_,
    openingHi_,
    length_,
    poreRadius_,          \* the radius spline: its value at each arc length
    mpOp,                 \* the member function called last
    mappedCoords,         \* argument of checkIfInside(): id -> <<s, rho, phi>>
    margin,               \* the margin the caller hands to checkIfInside()
    isInside,             \* what checkIfInside() returned
    nPoints,              \* argument of sampleArcLength()
    extrapDist,           \* argument of sampleArcLength()
    arcLengthSample,      \* what sampleArcLength() returned
    mapSel,               \* argument of mapSelection(): the positions by refId
    mapSelMapped,         \* what mapSelection() returned
    ctorStep,             \* the number of constructor steps carried out
    centreLine_,          \* what the centre line spline is parametrised by
    arcLen,               \* the constructor's arcLen: its front and its back
    arcLengthParamCalls,  \* the number of calls of centreLine_.arcLengthParam()
    \* cubic spline interpolation
    ciPc,                 \* position of the interpolation
    dataX,                \* the abscissas x
    dataF,                \* the values f
    bc,                   \* the boundary condition requested
    interpKnotVector,     \* what prepareKnotVector() returned
    subDiag,
    mainDiag,
    superDiag,
    rhsVec,
    coefs,                \* the control points the solver returned
    ciWrites,             \* the array entries assigned so far, in order
    derivArgs,            \* the endpoint and method of a call of estimateEndpointDeriv()
    derivEstimate,        \* the value that call returned
    \* trajectoryAnalysis::analyzeFrame
    topVdwRadii,          \* the member vdwRadii_: a radius for each topology atom
    refSelection,         \* the reference selection: mappedId() of each position
    pfInitProbePosIsSet_,
    pfInitProbePos_,      \* 0 as set by the option, f as calculated for frame f
    afPc,                 \* position of analyzeFrame() for each frame
    selVdwRadii,          \* the local selVdwRadii of each frame
    initProbePos,         \* the position each frame's path finder starts from
    pathfile,             \* the frame whose path pathfile.dat holds; 0 if none
    writers,              \* for each shared resource, the frames that wrote it
    accessors,            \* for each shared resource, the frames that read or wrote it
    pfMethod_,            \* the option pf-method
    pfm,                  \* the local pfm of each frame: the finder it points to
    \* trajectoryAnalysis::analyzeFrame: the initial probe position
    ipPc,                 \* "options", "frame" or "done"
    ipIsSet,              \* the member pfInitProbePosIsSet_
    ipPos,                \* the member pfInitProbePos_ (one component)
    ippselIsSet_,
    ippsel_,              \* the atoms of the selection ippsel
    refsel_,              \* the atoms of the selection reference
    atomMass,             \* the mass of each topology atom
    frnr,                 \* the number of frames analysed
    frameX,               \* the coordinate of each atom in the frame analysed last
    \* SimulatedAnnealingOptimizer
    saPc,                 \* "annealing" or "returned"
    costFunction,         \* the objective: a cost for each parameter vector
    initState,            \* the initial candidate
    crntState,
    crntCost,
    bestState,
    bestCost,
    temp,                 \* the temperature
    nCoolingIter,         \* the iterations made
    saMaxCoolingIter,     \* the iteration cap
    saConvRelTol,         \* the convergence tolerance
    costSamples,          \* the sliding window of the last accepted costs
    saResult,             \* the state and cost returned
    \* ProbePathFinder::findPath
    finderState,          \* "Initial", "SteppingForward", "SteppingBackward", "Done"
    pfMaxProbeSteps,      \* the configured maximum number of steps
    pfMaxFreeDist,        \* the configured maximum radius
    numProbeSteps,        \* the step count of the current direction
    forwardRadii,         \* the radii of the support points recorded forward
    backwardRadii,        \* the radii of the support points recorded backward
    initRadius,           \* the radius of the initial point; <<>> until recorded
    \* trajectoryAnalysis::initAnalysis: residues
    iaPc,                 \* position of initAnalysis()
    resind,               \* atoms.atom[i].resind for each atom i of the topology
    refselAtomIdx,        \* refsel_.atomIndices()
    residueIndices_,
    atomResidueMapping_,
    residueAtomMapping_,
    poreAtomIndices_,
    poreResidueIndices_

pfVars == <<params, ctorPc, ctorAssigned, probeStepLength_, maxProbeRadius_,
            maxProbeSteps_, nbhCutoff>>

fdVars == <<probeRadius_, vdwRadii_, atomDist, fdPc, enumerated, pairs,
            minimalFreeDistance>>

bsVars == <<bsKnotVector, bsDegree, bsInterval, bsEvalPoint, evalPoint_,
            knotVector_, bsValue, bsRecursed, bsPc>>

mpVars == <<mpPc, openingLo_, openingHi_, length_, poreRadius_, mpOp, mappedCoords,
            margin, isInside, nPoints, extrapDist, arcLengthSample, mapSel, mapSelMapped,
            ctorStep, centreLine_, arcLen, arcLengthParamCalls>>

ciVars == <<ciPc, dataX, dataF, bc, interpKnotVector, subDiag, mainDiag, superDiag,
            rhsVec, coefs, ciWrites, derivArgs, derivEstimate>>

afVars == <<topVdwRadii, refSelection, pfInitProbePosIsSet_, pfInitProbePos_, afPc,
            selVdwRadii, initProbePos, pathfile, writers, accessors, pfMethod_, pfm>>

ipVars == <<ipPc, ipIsSet, ipPos, ippselIsSet_, ippsel_, refsel_, atomMass, frnr, frameX>>

saVars == <<saPc, costFunction, initState, crntState, crntCost, bestState, bestCost, temp,
            nCoolingIter, saMaxCoolingIter, saConvRelTol, costSamples, saResult>>

ppVars == <<finderState, pfMaxProbeSteps, pfMaxFreeDist, numProbeSteps, forwardRadii,
            backwardRadii, initRadius>>

iaVars == <<iaPc, resind, refselAtomIdx, residueIndices_, atomResidueMapping_,
            residueAtomMapping_, poreAtomIndices_, poreResidueIndices_>>

vars == <<pfVars, fdVars, bsVars, mpVars, ciVars, afVars, ipVars, saVars, ppVars, iaVars>>

(***************************************************************************)
(* AbstractProbePathFinder::AbstractProbePathFinder                        *)
(***************************************************************************)
ParamKeys == {"pfProbeRadius", "pfProbeStepLength", "pfProbeMaxRadius", "pfProbeMaxSteps"}

ParamMaps == UNION {[ks -> 0..MaxParamValue] : ks \in SUBSET ParamKeys}

\* mutant: a missing key is replaced by a default value
LookupOrDefault(p, key) ==
    IF key \in DOMAIN p THEN [abort |-> FALSE, value |-> p[key]]
    ELSE [abort |-> FALSE, value |-> 0]

\* if( params.find(key) != params.end() ) member = params[key]; else abort
LookupOrAbort(p, key) ==
    IF key \in DOMAIN p THEN [abort |-> FALSE, value |-> p[key]]
    ELSE [abort |-> TRUE, value |-> 0]

CtorIdle ==
    /\ params = <<>>
    /\ ctorPc = "idle"
    /\ ctorAssigned = {}
    /\ probeStepLength_ = 0
    /\ maxProbeRadius_ = 0
    /\ maxProbeSteps_ = 0
    /\ nbhCutoff = -1

CtorInit ==
    /\ params \in ParamMaps
    /\ ctorPc = "probeRadius"
    /\ ctorAssigned = {}
    /\ probeStepLength_ = 0
    /\ maxProbeRadius_ = 0
    /\ maxProbeSteps_ = 0
    /\ nbhCutoff = -1

SetProbeRadius ==
    /\ ctorPc = "probeRadius"
    /\ LET r == LookupOrAbort(params, "pfProbeRadius")
       IN  IF r.abort
           THEN /\ ctorPc' = "aborted"
                /\ UNCHANGED <<ctorAssigned, probeRadius_>>
           ELSE /\ ctorPc' = "probeStepLength"
                /\ probeRadius_' = r.value
                /\ ctorAssigned' = ctorAssigned \cup {"pfProbeRadius"}
    /\ UNCHANGED <<params, probeStepLength_, maxProbeRadius_, maxProbeSteps_, nbhCutoff>>
    /\ UNCHANGED <<vdwRadii_, atomDist, fdPc, enumerated, pairs, minimalFreeDistance>>
    /\ UNCHANGED <<bsVars, mpVars, ciVars, afVars, ipVars, saVars, ppVars, iaVars>>

SetProbeStepLength ==
    /\ ctorPc = "probeStepLength"
    /\ LET r == LookupOrAbort(params, "pfProbeStepLength")
       IN  IF r.abort
           THEN /\ ctorPc' = "aborted"
                /\ UNCHANGED <<ctorAssigned, probeStepLength_>>
           ELSE /\ ctorPc' = "maxProbeRadius"
                /\ probeStepLength_' = r.value
                /\ ctorAssigned' = ctorAssigned \cup {"pfProbeStepLength"}
    /\ UNCHANGED <<params, maxProbeRadius_, maxProbeSteps_, nbhCutoff>>
    /\ UNCHANGED <<fdVars, bsVars, mpVars, ciVars, afVars, ipVars, saVars, ppVars, iaVars>>

SetMaxProbeRadius ==
    /\ ctorPc = "maxProbeRadius"
    /\ LET r == LookupOrAbort(params, "pfProbeMaxRadius")
       IN  IF r.abort
           THEN /\ ctorPc' = "aborted"
                /\ UNCHANGED <<ctorAssigned, maxProbeRadius_>>
           ELSE /\ ctorPc' = "maxProbeSteps"
                /\ maxProbeRadius_' = r.value
                /\ ctorAssigned' = ctorAssigned \cup {"pfProbeMaxRadius"}
    /\ UNCHANGED <<params, probeStepLength_, maxProbeSteps_, nbhCutoff>>
    /\ UNCHANGED <<fdVars, bsVars, mpVars, ciVars, afVars, ipVars, saVars, ppVars, iaVars>>

SetMaxProbeSteps ==
    /\ ctorPc = "maxProbeSteps"
    /\ LET r == LookupOrAbort(params, "pfProbeMaxSteps")
       IN  IF r.abort
           THEN /\ ctorPc' = "aborted"
                /\ UNCHANGED <<ctorAssigned, maxProbeSteps_>>
           ELSE /\ ctorPc' = "initSearch"
                /\ maxProbeSteps_' = r.value
                /\ ctorAssigned' = ctorAssigned \cup {"pfProbeMaxSteps"}
    /\ UNCHANGED <<params, probeStepLength_, maxProbeRadius_, nbhCutoff>>
    /\ UNCHANGED <<fdVars, bsVars, mpVars, ciVars, afVars, ipVars, saVars, ppVars, iaVars>>

\* nbh_.setCutoff(0.0); ...; nbSearch_ = nbh_.initSearch(&pbc, porePos)
InitSearch ==
    /\ ctorPc = "initSearch"
    /\ nbhCutoff' = 0
    /\ ctorPc' = "constructed"
    /\ UNCHANGED <<params, ctorAssigned, probeStepLength_, maxProbeRadius_, maxProbeSteps_>>
    /\ UNCHANGED <<fdVars, bsVars, mpVars, ciVars, afVars, ipVars, saVars, ppVars, iaVars>>

CtorNext ==
    \/ SetProbeRadius
    \/ SetProbeStepLength
    \/ SetMaxProbeRadius
    \/ SetMaxProbeSteps
    \/ InitSearch

(***************************************************************************)
(* AbstractProbePathFinder::findMinimalFreeDistance                        *)
(***************************************************************************)
RefIndices == DOMAIN vdwRadii_

RECURSIVE Orderings(_)
\* every order in which the pair search may return the members of s
Orderings(s) ==
    IF s = {} THEN {<<>>}
    ELSE UNION {{<<x>> \o o : o \in Orderings(s \ {x})} : x \in s}

\* the pairs of one pair search: any subset of the reference atoms (those
\* within the cutoff), each once, in any order
PairSearches ==
    UNION {Orderings({[refIndex |-> i, distance2 |-> atomDist[i] * atomDist[i]] : i \in s})
           : s \in SUBSET RefIndices}

\* mutant: an arbitrary finite initial value
InitialFreeDistanceZero == Zero

\* real minimalFreeDistance = std::numeric_limits<real>::infinity()
InitialFreeDistance == Infinity

\* one pass of the while loop over the pair `pair`
UpdateFreeDistance(m, pair, probeRadius) ==
    LET pairDist == Sqrt(pair.distance2)
        poreAtomVdwRadius == R(vdwRadii_[pair.refIndex])
    IN  IF RLt(RSub(RSub(pairDist, poreAtomVdwRadius), R(probeRadius)), m)
        THEN RSub(pairDist, poreAtomVdwRadius)
        ELSE m

FdIdle ==
    /\ probeRadius_ = 0
    /\ vdwRadii_ = <<>>
    /\ atomDist = <<>>
    /\ fdPc = "idle"
    /\ enumerated = <<>>
    /\ pairs = <<>>
    /\ minimalFreeDistance = Zero

FdInit ==
    /\ probeRadius_ \in 0..MaxProbeRadius
    /\ \E n \in 0..MaxAtoms :
          /\ vdwRadii_ \in [1..n -> 0..MaxVdwRadius]
          /\ atomDist \in [1..n -> 0..MaxDist]
    /\ fdPc = "start"
    /\ enumerated = <<>>
    /\ pairs = <<>>
    /\ minimalFreeDistance = Zero

StartPairSearch ==
    /\ fdPc = "start"
    /\ minimalFreeDistance' = InitialFreeDistance
    /\ \E e \in PairSearches :
          /\ enumerated' = e
          /\ pairs' = e
    /\ fdPc' = "loop"
    /\ UNCHANGED <<probeRadius_, vdwRadii_, atomDist>>
    /\ UNCHANGED <<pfVars, bsVars, mpVars, ciVars, afVars, ipVars, saVars, ppVars, iaVars>>

FindNextPair ==
    /\ fdPc = "loop"
    /\ pairs # <<>>
    /\ minimalFreeDistance' = UpdateFreeDistance(minimalFreeDistance, Head(pairs), probeRadius_)
    /\ pairs' = Tail(pairs)
    /\ UNCHANGED <<probeRadius_, vdwRadii_, atomDist, fdPc, enumerated>>
    /\ UNCHANGED <<pfVars, bsVars, mpVars, ciVars, afVars, ipVars, saVars, ppVars, iaVars>>

ReturnFreeDistance ==
    /\ fdPc = "loop"
    /\ pairs = <<>>
    /\ fdPc' = "done"
    /\ UNCHANGED <<probeRadius_, vdwRadii_, atomDist, enumerated, pairs, minimalFreeDistance>>
    /\ UNCHANGED <<pfVars, bsVars, mpVars, ciVars, afVars, ipVars, saVars, ppVars, iaVars>>

FdNext ==
    \/ StartPairSearch
    \/ FindNextPair
    \/ ReturnFreeDistance

(***************************************************************************)
(* BasisSpline::evaluate and BasisSpline::recursion                        *)
(*                                                                         *)
(* Knots and evaluation points are integers of the knot grid; code index i *)
(* of a std::vector is index i + 1 of the sequence.                        *)
(***************************************************************************)
Last(s) == s[Len(s)]

Repeat(v, n) == [i \in 1..n |-> v]

RECURSIVE NonDecreasingSeqs(_, _)
\* the non-decreasing sequences of length n over lo..MaxKnot
NonDecreasingSeqs(n, lo) ==
    IF n = 0 THEN {<<>>}
    ELSE UNION {{<<v>> \o t : t \in NonDecreasingSeqs(n - 1, v)} : v \in lo..MaxKnot}

KnotVectors == UNION {NonDecreasingSeqs(n, 0) : n \in 2..MaxKnots}

\* knotVector_ after the three push_back loops
PadKnots(knotVector, degree) ==
    Repeat(Head(knotVector), degree) \o knotVector \o Repeat(Last(knotVector), degree)

\* mutant: the last basis function is taken one index too high
LastBasisIndexOffByOne(t, degree) == Len(t) - degree - 1

\* knotVector_.size() - degree - 2
LastBasisIndex(t, degree) == Len(t) - degree - 2

\* mutant: the knot interval is closed at its upper end
InKnotIntervalClosed(t, x, i) == x >= t[i + 1] /\ x <= t[i + 2]

\* evalPoint_ >= knotVector_[i] && evalPoint_ < knotVector_[i + 1]
InKnotInterval(t, x, i) == x >= t[i + 1] /\ x < t[i + 2]

\* mutant: the division is carried out whatever the denominator
PrefactorUnguarded(num, den) == RDiv(R(num), R(den))

\* a prefactor of the recursion: 0 if its denominator is at most epsilon
Prefactor(num, den) == IF den <= Epsilon THEN Zero ELSE RDiv(R(num), R(den))

RECURSIVE recursion(_, _, _, _)
\* recursion(k, i) over the members knotVector_ = t and evalPoint_ = x
recursion(t, x, k, i) ==
    IF k = 0
    THEN IF InKnotInterval(t, x, i) THEN One ELSE Zero
    ELSE LET frstNum == x - t[i + 1]
             frstDen == t[i + k + 1] - t[i + 1]
             scndNum == t[i + k + 2] - x
             scndDen == t[i + k + 2] - t[i + 2]
             frstFac == Prefactor(frstNum, frstDen)
             scndFac == Prefactor(scndNum, scndDen)
         IN  RAdd(RMul(frstFac, recursion(t, x, k - 1, i)),
                  RMul(scndFac, recursion(t, x, k - 1, i + 1)))

\* mutant: degree 0 is rejected as well
DegreeNotPositive(degree) == degree <= 0

\* the sanity check: degree < 0
DegreeNegative(degree) == degree < 0

\* evaluate(): what it returns and what it leaves in the members
evaluate(knotVector, degree, interval, evalPoint) ==
    IF DegreeNegative(degree)
    THEN [aborted |-> TRUE, value |-> Zero, recursed |-> FALSE, knots |-> knotVector_,
          point |-> evalPoint_]
    ELSE LET t == PadKnots(knotVector, degree)
         IN  IF evalPoint = Last(t)
             THEN [aborted |-> FALSE,
                   value |-> IF interval = LastBasisIndex(t, degree) THEN One ELSE Zero,
                   recursed |-> FALSE, knots |-> t, point |-> evalPoint]
             ELSE [aborted |-> FALSE, value |-> recursion(t, evalPoint, degree, interval),
                   recursed |-> TRUE, knots |-> t, point |-> evalPoint]

\* the basis functions of a padded knot vector of length n: 0 .. n - degree - 2
BasisIndices(knotVector, degree) == 0..(Len(knotVector) + 2 * degree - degree - 2)

BsIdle ==
    /\ bsKnotVector = <<>>
    /\ bsDegree = 0
    /\ bsInterval = 0
    /\ bsEvalPoint = 0
    /\ evalPoint_ = 0
    /\ knotVector_ = <<>>
    /\ bsValue = Zero
    /\ bsRecursed = FALSE
    /\ bsPc = "idle"

\* a constructed BasisSpline and the arguments of a call of evaluate()
BsInit ==
    /\ bsKnotVector \in KnotVectors
    /\ bsDegree \in -1..MaxDegree
    /\ bsInterval \in BasisIndices(bsKnotVector, IF bsDegree < 0 THEN 0 ELSE bsDegree)
    /\ bsEvalPoint \in 0..MaxKnot
    /\ evalPoint_ = 0
    /\ knotVector_ = <<>>
    /\ bsValue = Zero
    /\ bsRecursed = FALSE
    /\ bsPc = "call"

Evaluate ==
    /\ bsPc = "call"
    /\ LET r == evaluate(bsKnotVector, bsDegree, bsInterval, bsEvalPoint)
       IN  /\ bsPc' = IF r.aborted THEN "aborted" ELSE "returned"
           /\ bsValue' = r.value
           /\ bsRecursed' = r.recursed
           /\ knotVector_' = r.knots
           /\ evalPoint_' = r.point
    /\ UNCHANGED <<bsKnotVector, bsDegree, bsInterval, bsEvalPoint>>
    /\ UNCHANGED <<pfVars, fdVars, mpVars, ciVars, afVars, ipVars, saVars, ppVars, iaVars>>

BsNext == Evaluate

(***************************************************************************)
(* MolecularPath                                                           *)
(*                                                                         *)
(* Arc lengths, radial offsets and radii are integers of one length grid.  *)
(* The radius spline poreRadius_ is held by its values on the grid, so     *)
(* poreRadius_(s, 0, eSplineEvalDeBoor) is poreRadius_[s].                 *)
(***************************************************************************)
\* the values a radius spline may take over the arc length grid
RadiusSplines == [0..MaxS -> 0..MaxRadius]

\* mapped coordinates <<s, rho, phi>>
Curvilinear == {<<s, rho, 0>> : s \in 0..MaxS, rho \in 0..MaxRho}

MappedCoordMaps == UNION {[ids -> Curvilinear] : ids \in SUBSET (1..MaxIds)}

\* mutant: the comparison is the wrong way round
InsideTestReversed(coord) == coord[2] > poreRadius_[coord[1]]

\* it->second[1] < poreRadius_(it->second[0], 0, eSplineEvalDeBoor)
InsideTest(coord) == coord[2] < poreRadius_[coord[1]]

\* checkIfInside(mappedCoords): the function takes no margin
checkIfInside(coords) == [id \in DOMAIN coords |-> InsideTest(coords[id])]

\* (length() + 2.0*extrapDist)/(nPoints - 1)
sampleArcLenStep(n, extrap) == RDiv(R(length_ + 2 * extrap), R(n - 1))

\* sampleArcLength(nPoints, extrapDist); element i of the vector is index i + 1
sampleArcLength(n, extrap) ==
    LET arcLenStep == sampleArcLenStep(n, extrap)
    IN  [k \in 1..n |-> RAdd(R(openingLo_ - extrap), RMul(R(k - 1), arcLenStep))]

MpIdle ==
    /\ mpPc = "idle"
    /\ openingLo_ = 0
    /\ openingHi_ = 0
    /\ length_ = 0
    /\ poreRadius_ = <<>>
    /\ mpOp = "none"
    /\ mappedCoords = <<>>
    /\ margin = 0
    /\ isInside = <<>>
    /\ nPoints = 0
    /\ extrapDist = 0
    /\ arcLengthSample = <<>>
    /\ mapSel = <<>>
    /\ mapSelMapped = <<>>
    /\ ctorStep = 0
    /\ centreLine_ = "unset"
    /\ arcLen = <<>>
    /\ arcLengthParamCalls = 0

MpInit ==
    /\ mpPc = "new"
    /\ openingLo_ = 0
    /\ openingHi_ = 0
    /\ length_ = 0
    /\ poreRadius_ = <<>>
    /\ mpOp = "none"
    /\ mappedCoords = <<>>
    /\ margin = 0
    /\ isInside = <<>>
    /\ nPoints = 0
    /\ extrapDist = 0
    /\ arcLengthSample = <<>>
    /\ mapSel = <<>>
    /\ mapSelMapped = <<>>
    /\ ctorStep = 0
    /\ centreLine_ = "unset"
    /\ arcLen = <<>>
    /\ arcLengthParamCalls = 0

\* the arc lengths ctrlPointArcLength() returns for the first and the last
\* control point: arc length does not decrease along the curve
EndpointArcLengths == {a \in (0..MaxArc) \X (0..MaxArc) : a[1] <= a[2]}

\* mutant: the centre line is reparametrised before the radius spline is fitted
CtorCallsReparamFirst == <<"Interp3D", "ctrlPointArcLength", "arcLengthParam", "Interp1D">>

\* the calls of the constructor in the order of its statements
CtorCalls == <<"Interp3D", "ctrlPointArcLength", "Interp1D", "arcLengthParam">>

\* the call the constructor makes next
NextCtorCall == IF ctorStep < Len(CtorCalls) THEN CtorCalls[ctorStep + 1] ELSE "return"

\* the statement is done; after the last one the constructor returns
CtorAdvance ==
    /\ ctorStep' = ctorStep + 1
    /\ mpPc' = IF ctorStep + 1 = Len(CtorCalls) THEN "constructed" ELSE "new"
    /\ UNCHANGED <<mpOp, mappedCoords, margin, isInside, nPoints, extrapDist, arcLengthSample,
                   mapSel, mapSelMapped>>
    /\ UNCHANGED <<pfVars, fdVars, bsVars, ciVars, afVars, ipVars, saVars, ppVars, iaVars>>

\* mutant: the difference is taken without its absolute value, low end first
PathLengthSigned(lo, hi) == lo - hi

\* std::abs(openingHi_ - openingLo_)
PathLength(lo, hi) == Abs(hi - lo)

\* centreLine_ = Interp3D(pathPoints_, eSplineInterpBoundaryHermite)
FitCentreLine ==
    /\ mpPc = "new"
    /\ NextCtorCall = "Interp3D"
    /\ centreLine_' = "pointIndex"
    /\ UNCHANGED <<openingLo_, openingHi_, length_, poreRadius_, arcLen, arcLengthParamCalls>>
    /\ CtorAdvance

\* arcLen = centreLine_.ctrlPointArcLength() and the three assignments from it
CtrlPointArcLength ==
    /\ mpPc = "new"
    /\ NextCtorCall = "ctrlPointArcLength"
    /\ arcLen' \in EndpointArcLengths
    /\ openingLo_' = arcLen'[1]
    /\ openingHi_' = arcLen'[2]
    /\ length_' = PathLength(openingLo_', openingHi_')
    /\ UNCHANGED <<poreRadius_, centreLine_, arcLengthParamCalls>>
    /\ CtorAdvance

\* poreRadius_ = Interp1D(arcLen, pathRadii_, eSplineInterpBoundaryHermite)
FitPoreRadius ==
    /\ mpPc = "new"
    /\ NextCtorCall = "Interp1D"
    /\ poreRadius_' \in RadiusSplines
    /\ UNCHANGED <<openingLo_, openingHi_, length_, centreLine_, arcLen, arcLengthParamCalls>>
    /\ CtorAdvance

\* centreLine_.arcLengthParam()
ArcLengthParam ==
    /\ mpPc = "new"
    /\ NextCtorCall = "arcLengthParam"
    /\ centreLine_' = "arcLength"
    /\ arcLengthParamCalls' = arcLengthParamCalls + 1
    /\ UNCHANGED <<openingLo_, openingHi_, length_, poreRadius_, arcLen>>
    /\ CtorAdvance

\* MolecularPath::MolecularPath(pathPoints, pathRadii)
Construct ==
    \/ FitCentreLine
    \/ CtrlPointArcLength
    \/ FitPoreRadius
    \/ ArcLengthParam

\* molPath.checkIfInside(poreCogMappedCoords, poreMappingMargin_)
CheckIfInside ==
    /\ mpPc = "constructed"
    /\ mpOp = "none"
    /\ \E coords \in MappedCoordMaps, m \in 0..MaxMargin :
          /\ mappedCoords' = coords
          /\ margin' = m
          /\ isInside' = checkIfInside(coords)
    /\ mpOp' = "checkIfInside"
    /\ UNCHANGED <<mpPc, openingLo_, openingHi_, length_, poreRadius_, nPoints, extrapDist,
                   arcLengthSample, mapSel, mapSelMapped>>
    /\ UNCHANGED <<ctorStep, centreLine_, arcLen, arcLengthParamCalls>>
    /\ UNCHANGED <<pfVars, fdVars, bsVars, ciVars, afVars, ipVars, saVars, ppVars, iaVars>>

\* molPath.sampleArcLength(nPoints, extrapDist)
SampleArcLength ==
    /\ mpPc = "constructed"
    /\ mpOp = "none"
    /\ \E n \in 0..MaxPoints, extrap \in 0..MaxExtrap :
          /\ nPoints' = n
          /\ extrapDist' = extrap
          /\ arcLengthSample' = sampleArcLength(n, extrap)
    /\ mpOp' = "sampleArcLength"
    /\ UNCHANGED <<mpPc, openingLo_, openingHi_, length_, poreRadius_, mappedCoords, margin,
                   isInside, mapSel, mapSelMapped>>
    /\ UNCHANGED <<ctorStep, centreLine_, arcLen, arcLengthParamCalls>>
    /\ UNCHANGED <<pfVars, fdVars, bsVars, ciVars, afVars, ipVars, saVars, ppVars, iaVars>>

\* the positions of a selection: for each refId, whether nearestPoint() finds a
\* centre line point within the cutoff and whether cartesianToCurvilinear()
\* converges for the position
Selections ==
    UNION {[ids -> [pairValid : BOOLEAN, converged : BOOLEAN]] :
              ids \in SUBSET (1..MaxPositions)}

\* the value cartesianToCurvilinear() returns for a position; the function
\* hands back a vector whether or not its iteration converged
cartesianToCurvilinear(pos) == [converged |-> pos.converged]

\* the refIds the loop does not skip: pair.isValid() == false -> continue
MappedRefIds(sel) == {id \in DOMAIN sel : sel[id].pairValid}

\* mapSelection(mapSel, nbhSearchPbc)
mapSelection(sel) == [id \in MappedRefIds(sel) |-> cartesianToCurvilinear(sel[id])]

\* molPath.mapSelection(sel, pbc)
MapSelection ==
    /\ mpPc = "constructed"
    /\ mpOp = "none"
    /\ \E sel \in Selections :
          /\ mapSel' = sel
          /\ mapSelMapped' = mapSelection(sel)
    /\ mpOp' = "mapSelection"
    /\ UNCHANGED <<mpPc, openingLo_, openingHi_, length_, poreRadius_, mappedCoords, margin,
                   isInside, nPoints, extrapDist, arcLengthSample>>
    /\ UNCHANGED <<ctorStep, centreLine_, arcLen, arcLengthParamCalls>>
    /\ UNCHANGED <<pfVars, fdVars, bsVars, ciVars, afVars, ipVars, saVars, ppVars, iaVars>>

MpNext ==
    \/ Construct
    \/ CheckIfInside
    \/ SampleArcLength
    \/ MapSelection

(***************************************************************************)
(* AbstractCubicSplineInterp                                               *)
(*                                                                         *)
(* The arrays subDiag, mainDiag, superDiag and rhsVec are functions over   *)
(* the source's indices, which start at 0; the vectors x and f are         *)
(* sequences, so x.at(i) is xs[i + 1].                                     *)
(***************************************************************************)
\* the degree of the interpolating spline
degree_ == 3

RECURSIVE IncreasingSeqs(_, _)
\* the strictly increasing sequences of length n over lo..MaxAbscissa
IncreasingSeqs(n, lo) ==
    IF n = 0 THEN {<<>>}
    ELSE UNION {{<<v>> \o t : t \in IncreasingSeqs(n - 1, v + 1)} : v \in lo..MaxAbscissa}

\* the data sets (x, f): at least three points, abscissas in increasing order
DataSets ==
    UNION {IncreasingSeqs(n, 0) \X [1..n -> 0..MaxValue] : n \in 3..MaxData}

BoundaryConditions ==
    {"eSplineInterpBoundaryHermite", "eSplineInterpBoundaryNatural", "other"}

\* mutant: natural boundary conditions are taken as implemented
ImplementedOrNatural(b) ==
    b \in {"eSplineInterpBoundaryHermite", "eSplineInterpBoundaryNatural"}

\* the branch of the if-chain on bc that does not abort
Implemented(b) == b = "eSplineInterpBoundaryHermite"

\* mutant: each end knot is repeated once more
prepareKnotVectorFourRepeats(xs) ==
    Repeat(Head(xs), degree_ + 1) \o xs \o Repeat(Last(xs), degree_ + 1)

\* prepareKnotVector(x)
prepareKnotVector(xs) == Repeat(Head(xs), degree_) \o xs \o Repeat(Last(xs), degree_)

\* the functor B: BasisSpline::operator() refers to evaluate()
B(kv, degree, interval, evalPoint) == evaluate(kv, degree, interval, evalPoint).value

RECURSIVE D(_, _, _, _, _)
\* the functor D: the derivative of order derivOrder of a basis spline, by the
\* recurrence k (B_{i,k-1}/(t_{i+k} - t_i) - B_{i+1,k-1}/(t_{i+k+1} - t_{i+1}))
\* down to order 0, which is evaluate()
D(kv, k, i, evalPoint, derivOrder) ==
    IF derivOrder = 0
    THEN B(kv, k, i, evalPoint)
    ELSE LET frstFac == Prefactor(1, kv[i + k + 1] - kv[i + 1])
             scndFac == Prefactor(1, kv[i + k + 2] - kv[i + 2])
         IN  RMul(R(k), RSub(RMul(frstFac, D(kv, k - 1, i, evalPoint, derivOrder - 1)),
                             RMul(scndFac, D(kv, k - 1, i + 1, evalPoint, derivOrder - 1))))

\* assembleDiagonals() under Hermite boundary conditions: the three arrays
assembleDiagonals(kv, xs) ==
    LET nDat == Len(xs)
        nSys == nDat + 2
        xLo == Head(xs)
        xHi == Last(xs)
    IN  [sub |-> [i \in 0..(nSys - 2) |->
                    IF i = nSys - 2 THEN D(kv, degree_, nSys - 2, xHi, 1)
                    ELSE B(kv, degree_, i, xs[i + 1])],
         main |-> [i \in 0..(nSys - 1) |->
                    IF i = 0 THEN D(kv, degree_, 0, xLo, 1)
                    ELSE IF i = nSys - 1 THEN D(kv, degree_, nSys - 1, xHi, 1)
                    ELSE B(kv, degree_, i, xs[i])],
         super |-> [i \in 0..(nSys - 2) |->
                    IF i = 0 THEN D(kv, degree_, 1, xLo, 1)
                    ELSE B(kv, degree_, i + 1, xs[i])]]

\* the entries assembleDiagonals() assigns under Hermite boundary conditions,
\* in the order of its statements
diagonalWrites(xs) ==
    LET nDat == Len(xs)
        nSys == nDat + 2
    IN  <<<<"mainDiag", 0>>, <<"superDiag", 0>>, <<"mainDiag", nSys - 1>>,
          <<"subDiag", nSys - 2>>>>
        \o [k \in 1..nDat |-> <<"subDiag", k - 1>>]
        \o [k \in 1..nDat |-> <<"mainDiag", k>>]
        \o [k \in 1..(nSys - 2) |-> <<"superDiag", k>>]

\* mutant: the slope of the secant through the endpoint and its neighbour
estimateEndpointDerivSecant(xs, fs, endpoint, method) ==
    IF endpoint = "eSplineInterpEndpointLo"
    THEN RDiv(R(fs[2] - fs[1]), R(xs[2] - xs[1]))
    ELSE RDiv(R(fs[Len(xs)] - fs[Len(xs) - 1]), R(xs[Len(xs)] - xs[Len(xs) - 1]))

\* estimateEndpointDeriv(x, f, endpoint, method)
estimateEndpointDeriv(xs, fs, endpoint, method) ==
    LET nDat == Len(xs)
    IN  IF method = "eSplineInterpDerivParabolic"
        THEN LET lo == endpoint = "eSplineInterpEndpointLo"
                 xDeltaLo == IF lo THEN xs[1] - xs[3] ELSE xs[nDat] - xs[nDat - 1]
                 xDeltaHi == IF lo THEN xs[2] - xs[1] ELSE xs[nDat - 2] - xs[nDat]
                 fDeltaLo == IF lo THEN RDiv(R(fs[1] - fs[3]), R(xDeltaLo))
                             ELSE RDiv(R(fs[nDat] - fs[nDat - 1]), R(xDeltaLo))
                 fDeltaHi == IF lo THEN RDiv(R(fs[2] - fs[1]), R(xDeltaHi))
                             ELSE RDiv(R(fs[nDat - 2] - fs[nDat]), R(xDeltaHi))
             IN  RDiv(RAdd(RMul(R(xDeltaLo), fDeltaHi), RMul(R(xDeltaHi), fDeltaLo)),
                      R(xDeltaLo + xDeltaHi))
        ELSE LET lo == endpoint = "eSplineInterpEndpointLo"
                 fHi == IF lo THEN fs[2] ELSE fs[nDat]
                 xHi == IF lo THEN xs[2] ELSE xs[nDat]
                 fLo == IF lo THEN fs[1] ELSE fs[nDat - 1]
                 xLo == IF lo THEN fs[1] ELSE fs[nDat - 1]
             IN  RDiv(R(fHi - fLo), R(xHi - xLo))

\* mutant: the loop over the internal points starts from the second point
assembleRhsFromSecondPoint(xs, fs) ==
    LET nDat == Len(xs)
        nSys == nDat + 2
    IN  [i \in 0..(nSys - 1) |->
            IF i = 0
            THEN estimateEndpointDeriv(xs, fs, "eSplineInterpEndpointLo",
                                       "eSplineInterpDerivParabolic")
            ELSE IF i = nSys - 1
            THEN estimateEndpointDeriv(xs, fs, "eSplineInterpEndpointHi",
                                       "eSplineInterpDerivParabolic")
            ELSE IF i = 1 THEN Zero
            ELSE R(fs[i])]

\* assembleRhs() under Hermite boundary conditions
assembleRhs(xs, fs) ==
    LET nDat == Len(xs)
        nSys == nDat + 2
    IN  [i \in 0..(nSys - 1) |->
            IF i = 0
            THEN estimateEndpointDeriv(xs, fs, "eSplineInterpEndpointLo",
                                       "eSplineInterpDerivParabolic")
            ELSE IF i = nSys - 1
            THEN estimateEndpointDeriv(xs, fs, "eSplineInterpEndpointHi",
                                       "eSplineInterpDerivParabolic")
            ELSE R(fs[i])]

\* the entries assembleRhs() assigns under Hermite boundary conditions, in
\* the order of its statements
rhsWrites(xs) ==
    LET nDat == Len(xs)
        nSys == nDat + 2
    IN  <<<<"rhsVec", 0>>, <<"rhsVec", nSys - 1>>>> \o [k \in 1..nDat |-> <<"rhsVec", k>>]

RECURSIVE Pivot(_, _), SweepSuper(_, _), SweepRhs(_, _), BackSubstitute(_, _)
\* tridiagonal elimination: the pivot of row i after the rows above are eliminated
Pivot(sys, i) ==
    IF i = 0 THEN sys.main[0]
    ELSE RSub(sys.main[i], RMul(sys.sub[i - 1], SweepSuper(sys, i - 1)))

SweepSuper(sys, i) == RDiv(sys.super[i], Pivot(sys, i))

SweepRhs(sys, i) ==
    IF i = 0 THEN RDiv(sys.rhs[0], Pivot(sys, 0))
    ELSE RDiv(RSub(sys.rhs[i], RMul(sys.sub[i - 1], SweepRhs(sys, i - 1))), Pivot(sys, i))

BackSubstitute(sys, i) ==
    IF i = sys.size - 1 THEN SweepRhs(sys, i)
    ELSE RSub(SweepRhs(sys, i), RMul(SweepSuper(sys, i), BackSubstitute(sys, i + 1)))

RECURSIVE Determinant(_, _)
\* the determinant of the leading k rows and columns of a tridiagonal matrix
Determinant(sys, k) ==
    IF k = 0 THEN One
    ELSE IF k = 1 THEN sys.main[0]
    ELSE RSub(RMul(sys.main[k - 1], Determinant(sys, k - 1)),
              RMul(RMul(sys.sub[k - 2], sys.super[k - 2]), Determinant(sys, k - 2)))

\* what a tridiagonal solver leaves in the solution vector: the result of the
\* elimination, or, for a singular matrix, possibly the untouched right-hand side
SolverOutcomes(sys) ==
    {[i \in 0..(sys.size - 1) |-> BackSubstitute(sys, i)]} \cup
    (IF Determinant(sys, sys.size) = Zero THEN {sys.rhs} ELSE {})

RECURSIVE SplineSumUpTo(_, _, _, _)
SplineSumUpTo(knots, ctrlPoints, evalPoint, last) ==
    IF last < 0 THEN Zero
    ELSE RAdd(SplineSumUpTo(knots, ctrlPoints, evalPoint, last - 1),
              RMul(ctrlPoints[last], recursion(knots, evalPoint, degree_, last)))

\* the value at evalPoint of the cubic spline curve with the given knots and
\* control points; a clamped curve ends in its last control point
splineCurve(knots, ctrlPoints, evalPoint) ==
    LET last == Len(knots) - degree_ - 2
    IN  IF evalPoint = Last(knots) THEN ctrlPoints[last]
        ELSE SplineSumUpTo(knots, ctrlPoints, evalPoint, last)

CiIdle ==
    /\ ciPc = "idle"
    /\ dataX = <<>>
    /\ dataF = <<>>
    /\ bc = "eSplineInterpBoundaryHermite"
    /\ interpKnotVector = <<>>
    /\ subDiag = <<>>
    /\ mainDiag = <<>>
    /\ superDiag = <<>>
    /\ rhsVec = <<>>
    /\ coefs = <<>>
    /\ ciWrites = <<>>
    /\ derivArgs = <<>>
    /\ derivEstimate = Zero

\* a call of the interpolation with data (x, f) and boundary condition bc
CiInit ==
    /\ ciPc = "start"
    /\ \E d \in DataSets :
          /\ dataX = d[1]
          /\ dataF = d[2]
    /\ bc \in BoundaryConditions
    /\ interpKnotVector = <<>>
    /\ subDiag = <<>>
    /\ mainDiag = <<>>
    /\ superDiag = <<>>
    /\ rhsVec = <<>>
    /\ coefs = <<>>
    /\ ciWrites = <<>>
    /\ derivArgs = <<>>
    /\ derivEstimate = Zero

\* knotVector = prepareKnotVector(x)
PrepareKnotVector ==
    /\ ciPc = "start"
    /\ interpKnotVector' = prepareKnotVector(dataX)
    /\ ciPc' = "knots"
    /\ UNCHANGED <<dataX, dataF, bc, subDiag, mainDiag, superDiag, rhsVec, coefs, ciWrites,
                   derivArgs, derivEstimate>>
    /\ UNCHANGED <<pfVars, fdVars, bsVars, mpVars, afVars, ipVars, saVars, ppVars, iaVars>>

\* assembleDiagonals(knotVector, x, subDiag, mainDiag, superDiag, bc); the two
\* assembly functions share no data and are called in either order
AssembleDiagonals ==
    /\ ciPc \in {"knots", "rhs"}
    /\ IF Implemented(bc)
       THEN LET diag == assembleDiagonals(interpKnotVector, dataX)
            IN  /\ subDiag' = diag.sub
                /\ mainDiag' = diag.main
                /\ superDiag' = diag.super
                /\ ciWrites' = ciWrites \o diagonalWrites(dataX)
                /\ ciPc' = IF ciPc = "rhs" THEN "assembled" ELSE "diagonals"
       ELSE /\ ciPc' = "aborted in assembleDiagonals"
            /\ UNCHANGED <<subDiag, mainDiag, superDiag, ciWrites>>
    /\ UNCHANGED <<dataX, dataF, bc, interpKnotVector, rhsVec, coefs, derivArgs, derivEstimate>>
    /\ UNCHANGED <<pfVars, fdVars, bsVars, mpVars, afVars, ipVars, saVars, ppVars, iaVars>>

\* assembleRhs(x, f, rhsVec, bc)
AssembleRhs ==
    /\ ciPc \in {"knots", "diagonals"}
    /\ IF Implemented(bc)
       THEN /\ rhsVec' = assembleRhs(dataX, dataF)
            /\ ciWrites' = ciWrites \o rhsWrites(dataX)
            /\ ciPc' = IF ciPc = "diagonals" THEN "assembled" ELSE "rhs"
       ELSE /\ ciPc' = "aborted in assembleRhs"
            /\ UNCHANGED <<rhsVec, ciWrites>>
    /\ UNCHANGED <<dataX, dataF, bc, interpKnotVector, subDiag, mainDiag, superDiag, coefs,
                   derivArgs, derivEstimate>>
    /\ UNCHANGED <<pfVars, fdVars, bsVars, mpVars, afVars, ipVars, saVars, ppVars, iaVars>>

\* the system is solved for the control points of the spline curve
Solve ==
    /\ ciPc = "assembled"
    /\ coefs' \in SolverOutcomes([size |-> Len(dataX) + 2, sub |-> subDiag,
                                  main |-> mainDiag, super |-> superDiag, rhs |-> rhsVec])
    /\ ciPc' = "solved"
    /\ UNCHANGED <<dataX, dataF, bc, interpKnotVector, subDiag, mainDiag, superDiag, rhsVec,
                   ciWrites, derivArgs, derivEstimate>>
    /\ UNCHANGED <<pfVars, fdVars, bsVars, mpVars, afVars, ipVars, saVars, ppVars, iaVars>>

Endpoints == {"eSplineInterpEndpointLo", "eSplineInterpEndpointHi"}

DerivEstimates == {"eSplineInterpDerivParabolic", "eSplineInterpDerivSimple"}

\* a call estimateEndpointDeriv(x, f, endpoint, method) on the data
EstimateEndpointDeriv ==
    /\ ciPc = "start"
    /\ \E endpoint \in Endpoints, method \in DerivEstimates :
          /\ derivArgs' = <<endpoint, method>>
          /\ derivEstimate' = estimateEndpointDeriv(dataX, dataF, endpoint, method)
    /\ ciPc' = "estimated"
    /\ UNCHANGED <<dataX, dataF, bc, interpKnotVector, subDiag, mainDiag, superDiag, rhsVec,
                   coefs, ciWrites>>
    /\ UNCHANGED <<pfVars, fdVars, bsVars, mpVars, afVars, ipVars, saVars, ppVars, iaVars>>

CiNext ==
    \/ EstimateEndpointDeriv
    \/ PrepareKnotVector
    \/ AssembleDiagonals
    \/ AssembleRhs
    \/ Solve

(***************************************************************************)
(* trajectoryAnalysis::analyzeFrame                                        *)
(*                                                                         *)
(* The frames of a trajectory are analysed by one module object; the steps *)
(* of analyzeFrame() for different frames interleave.  The positions of    *)
(* the reference selection are atoms: mappedId() of a position is the      *)
(* index of its atom in the topology.                                      *)
(***************************************************************************)
Frames == 1..MaxFrames

TopAtoms == 0..(MaxTopAtoms - 1)

RECURSIVE AtomSeqs(_, _)
\* the strictly increasing sequences of n topology atoms from lo on
AtomSeqs(n, lo) ==
    IF n = 0 THEN {<<>>}
    ELSE UNION {{<<a>> \o t : t \in AtomSeqs(n - 1, a + 1)} : a \in lo..(MaxTopAtoms - 1)}

\* the reference selections: at least one atom
RefSelections == UNION {AtomSeqs(n, 0) : n \in 1..MaxTopAtoms}

\* the members and files the frames have in common
SharedResources == {"pfInitProbePos_", "pathfile.dat"}

\* refSelection.atomCount()
atomCount(sel) == Len(sel)

\* mutant: the index of the position within the selection
refIdOfPosition(sel, i) == i

\* refSelection.position(i).mappedId()
mappedId(sel, i) == sel[i + 1]

\* the loop that fills selVdwRadii; element i of the vector is index i + 1
GetVdwRadii(sel) == [k \in 1..atomCount(sel) |-> topVdwRadii[mappedId(sel, k - 1)]]

\* the values of the string option pf-method: the three names the code
\* knows and any other string
PfMethods == {"inplane-optim", "optim-direction", "naive-cylindrical", "other"}

\* create path finding module: what pfm points to after the if-chain
Finder(method) ==
    CASE method = "inplane-optim" -> "InplaneOptimisedProbePathFinder"
      [] method = "optim-direction" -> "OptimisedDirectionProbePathFinder"
      [] method = "naive-cylindrical" -> "NaiveCylindricalPathFinder"
      [] OTHER -> "nullptr"

AfIdle ==
    /\ topVdwRadii = <<>>
    /\ refSelection = <<>>
    /\ pfInitProbePosIsSet_ = FALSE
    /\ pfInitProbePos_ = 0
    /\ afPc = <<>>
    /\ selVdwRadii = <<>>
    /\ initProbePos = <<>>
    /\ pathfile = 0
    /\ writers = <<>>
    /\ accessors = <<>>
    /\ pfMethod_ = "inplane-optim"
    /\ pfm = <<>>

\* the module after initAnalysis(), before the first frame
AfInit ==
    /\ topVdwRadii \in [TopAtoms -> 0..MaxVdwRadius]
    /\ refSelection \in RefSelections
    /\ pfInitProbePosIsSet_ \in BOOLEAN
    /\ pfInitProbePos_ = 0
    /\ afPc = [f \in Frames |-> "start"]
    /\ selVdwRadii = [f \in Frames |-> <<>>]
    /\ initProbePos = [f \in Frames |-> 0]
    /\ pathfile = 0
    /\ writers = [r \in SharedResources |-> {}]
    /\ accessors = [r \in SharedResources |-> {}]
    /\ pfMethod_ \in PfMethods
    /\ pfm = [f \in Frames |-> "nullptr"]

Written(r, f) ==
    /\ writers' = [writers EXCEPT ![r] = @ \cup {f}]
    /\ accessors' = [accessors EXCEPT ![r] = @ \cup {f}]

\* UPDATE INITIAL PROBE POSITION FOR THIS FRAME
UpdateInitProbePos(f) ==
    /\ afPc[f] = "start"
    /\ IF pfInitProbePosIsSet_
       THEN UNCHANGED <<pfInitProbePos_, writers, accessors>>
       ELSE /\ pfInitProbePos_' = f
            /\ Written("pfInitProbePos_", f)
    /\ afPc' = [afPc EXCEPT ![f] = "probe position"]
    /\ UNCHANGED <<topVdwRadii, refSelection, pfInitProbePosIsSet_, selVdwRadii, initProbePos,
                   pathfile, pfMethod_, pfm>>
    /\ UNCHANGED <<pfVars, fdVars, bsVars, mpVars, ciVars, ipVars, saVars, ppVars, iaVars>>

\* GET VDW RADII FOR SELECTION, the neighbourhood search and the path finder,
\* which is handed pfInitProbePos_ and selVdwRadii
CreatePathFinder(f) ==
    /\ afPc[f] = "probe position"
    /\ selVdwRadii' = [selVdwRadii EXCEPT ![f] = GetVdwRadii(refSelection)]
    /\ initProbePos' = [initProbePos EXCEPT ![f] = pfInitProbePos_]
    /\ accessors' = [accessors EXCEPT !["pfInitProbePos_"] = @ \cup {f}]
    /\ pfm' = [pfm EXCEPT ![f] = Finder(pfMethod_)]
    /\ afPc' = [afPc EXCEPT ![f] = "path finder"]
    /\ UNCHANGED <<topVdwRadii, refSelection, pfInitProbePosIsSet_, pfInitProbePos_, pathfile,
                   writers, pfMethod_>>
    /\ UNCHANGED <<pfVars, fdVars, bsVars, mpVars, ciVars, ipVars, saVars, ppVars, iaVars>>

\* pfm -> findPath(), getMolecularPath() and the path written to pathfile.dat
WritePathFile(f) ==
    /\ afPc[f] = "path finder"
    /\ pathfile' = f
    /\ Written("pathfile.dat", f)
    /\ afPc' = [afPc EXCEPT ![f] = "path written"]
    /\ UNCHANGED <<topVdwRadii, refSelection, pfInitProbePosIsSet_, pfInitProbePos_,
                   selVdwRadii, initProbePos, pfMethod_, pfm>>
    /\ UNCHANGED <<pfVars, fdVars, bsVars, mpVars, ciVars, ipVars, saVars, ppVars, iaVars>>

\* pfm -> findPath() through a null pointer: the behaviour is undefined; the
\* call may also end the program
FindPathCrashes(f) ==
    /\ afPc[f] = "path finder"
    /\ pfm[f] = "nullptr"
    /\ afPc' = [g \in Frames |-> IF g = f THEN "findPath on nullptr" ELSE "terminated"]
    /\ UNCHANGED <<topVdwRadii, refSelection, pfInitProbePosIsSet_, pfInitProbePos_,
                   selVdwRadii, initProbePos, pathfile, writers, accessors, pfMethod_, pfm>>
    /\ UNCHANGED <<pfVars, fdVars, bsVars, mpVars, ciVars, ipVars, saVars, ppVars, iaVars>>

AfNext ==
    \E f \in Frames :
        \/ UpdateInitProbePos(f)
        \/ CreatePathFinder(f)
        \/ WritePathFile(f)
        \/ FindPathCrashes(f)

(***************************************************************************)
(* trajectoryAnalysis::analyzeFrame: UPDATE INITIAL PROBE POSITION FOR     *)
(* THIS FRAME                                                              *)
(*                                                                         *)
(* The frames are analysed one after the other.  The three components of   *)
(* the position are computed by the same statements; one component is      *)
(* modelled.  The selections hold atoms of positive mass.                  *)
(***************************************************************************)
Masses == [TopAtoms -> 1..MaxMass]

FrameCoords == [TopAtoms -> 0..MaxCoord]

RECURSIVE MassSumUpTo(_, _), WeightedSumUpTo(_, _, _)
\* totalMass after the first n iterations of the loop
MassSumUpTo(sel, n) ==
    IF n = 0 THEN Zero ELSE RAdd(MassSumUpTo(sel, n - 1), R(atomMass[sel[n]]))

\* centreOfMass[d] after the first n iterations of the loop
WeightedSumUpTo(sel, x, n) ==
    IF n = 0 THEN Zero
    ELSE RAdd(WeightedSumUpTo(sel, x, n - 1), RMul(R(atomMass[sel[n]]), R(x[sel[n]])))

RECURSIVE CoordSumUpTo(_, _, _)
CoordSumUpTo(sel, x, n) ==
    IF n = 0 THEN Zero ELSE RAdd(CoordSumUpTo(sel, x, n - 1), R(x[sel[n]]))

\* mutant: the centre of geometry
centreOfGeometry(sel, x) == RDiv(CoordSumUpTo(sel, x, Len(sel)), R(Len(sel)))

\* the loop over initPosSelection and the scaling by the total mass
centreOfMass(sel, x) ==
    RDiv(WeightedSumUpTo(sel, x, atomCount(sel)),
         RMul(One, MassSumUpTo(sel, atomCount(sel))))

\* the selection the centre of mass is taken of
tmpsel == IF ippselIsSet_ THEN ippsel_ ELSE refsel_

IpIdle ==
    /\ ipPc = "idle"
    /\ ipIsSet = FALSE
    /\ ipPos = Zero
    /\ ippselIsSet_ = FALSE
    /\ ippsel_ = <<>>
    /\ refsel_ = <<>>
    /\ atomMass = <<>>
    /\ frnr = 0
    /\ frameX = <<>>

\* the module after its constructor: pfInitProbePos_ = {0.0, 0.0, 0.0}
IpInit ==
    /\ ipPc = "options"
    /\ ipIsSet = FALSE
    /\ ipPos = Zero
    /\ ippselIsSet_ = FALSE
    /\ ippsel_ = <<>>
    /\ refsel_ = <<>>
    /\ atomMass \in Masses
    /\ frnr = 0
    /\ frameX = <<>>

\* the options reference (required), ippsel and init-probe-pos
InitOptions ==
    /\ ipPc = "options"
    /\ refsel_' \in RefSelections
    /\ \/ ippselIsSet_' = FALSE /\ ippsel_' = <<>>
       \/ ippselIsSet_' = TRUE /\ ippsel_' \in RefSelections
    /\ \/ ipIsSet' = FALSE /\ ipPos' = ipPos
       \/ ipIsSet' = TRUE /\ \E v \in 0..MaxCoord : ipPos' = R(v)
    /\ ipPc' = "frame"
    /\ UNCHANGED <<atomMass, frnr, frameX>>
    /\ UNCHANGED <<pfVars, fdVars, bsVars, mpVars, ciVars, afVars, saVars, ppVars, iaVars>>

\* analyzeFrame() up to the creation of the path finder, for the next frame
UpdateInitProbePosOfFrame ==
    /\ ipPc \in {"frame", "done"}
    /\ frnr < MaxFrames
    /\ \E x \in FrameCoords :
          /\ frameX' = x
          /\ ipPos' = IF ipIsSet = FALSE THEN centreOfMass(tmpsel, x) ELSE ipPos
    /\ frnr' = frnr + 1
    /\ ipPc' = "done"
    /\ UNCHANGED <<ipIsSet, ippselIsSet_, ippsel_, refsel_, atomMass>>
    /\ UNCHANGED <<pfVars, fdVars, bsVars, mpVars, ciVars, afVars, saVars, ppVars, iaVars>>

IpNext == InitOptions \/ UpdateInitProbePosOfFrame

(***************************************************************************)
(* SimulatedAnnealingOptimizer                                             *)
(*                                                                         *)
(* A parameter vector is a point of a small grid and the objective gives a *)
(* cost to each.  The pseudo-random source is a free choice: any candidate *)
(* may be generated, and a candidate of lower cost may be accepted or      *)
(* rejected, as the Metropolis probability lies strictly between 0 and 1   *)
(* at every positive temperature.                                          *)
(***************************************************************************)
SaStates == 0..MaxState

CostFunctions == [SaStates -> 0..MaxCost]

\* the geometric cooling factor, 0 < factor < 1
CoolingFactor == <<1, 2>>

\* mutant: the candidate accepted last is the one returned
ReplacesBestAlways(candCost, best) == TRUE

\* a candidate replaces the best one seen when its cost is higher
ReplacesBest(candCost, best) == candCost > best

\* the window after a cost was accepted
PushCostSample(w, c) ==
    IF Len(w) < MaxCostSamples THEN Append(w, c) ELSE Append(Tail(w), c)

\* the relative change across the window has fallen below the tolerance
WindowConverged(w) ==
    /\ Len(w) = MaxCostSamples
    /\ Abs(w[Len(w)] - w[1]) < saConvRelTol * Abs(w[1])

\* iteration cap reached or convergence-window criterion satisfied
Terminal == nCoolingIter >= saMaxCoolingIter \/ WindowConverged(costSamples)

SaIdle ==
    /\ saPc = "idle"
    /\ costFunction = <<>>
    /\ initState = 0
    /\ crntState = 0
    /\ crntCost = 0
    /\ bestState = 0
    /\ bestCost = 0
    /\ temp = Zero
    /\ nCoolingIter = 0
    /\ saMaxCoolingIter = 0
    /\ saConvRelTol = 0
    /\ costSamples = <<>>
    /\ saResult = <<>>

\* the optimizer after construction: the initial candidate is the current
\* and the best one
SaInit ==
    /\ saPc = "annealing"
    /\ costFunction \in CostFunctions
    /\ initState \in SaStates
    /\ crntState = initState
    /\ crntCost = costFunction[initState]
    /\ bestState = initState
    /\ bestCost = costFunction[initState]
    /\ temp = One
    /\ nCoolingIter = 0
    /\ saMaxCoolingIter \in 0..MaxCoolingIter
    /\ saConvRelTol \in 0..MaxTol
    /\ costSamples = <<>>
    /\ saResult = <<>>

\* the temperature is cooled and the iteration counted
Cool ==
    /\ temp' = RMul(temp, CoolingFactor)
    /\ nCoolingIter' = nCoolingIter + 1

\* one step in which the candidate is accepted
AcceptCandidate ==
    /\ saPc = "annealing"
    /\ ~Terminal
    /\ \E cand \in SaStates :
          /\ crntState' = cand
          /\ crntCost' = costFunction[cand]
          /\ costSamples' = PushCostSample(costSamples, costFunction[cand])
          /\ IF ReplacesBest(costFunction[cand], bestCost)
             THEN bestState' = cand /\ bestCost' = costFunction[cand]
             ELSE UNCHANGED <<bestState, bestCost>>
    /\ Cool
    /\ UNCHANGED <<saPc, costFunction, initState, saMaxCoolingIter, saConvRelTol, saResult>>
    /\ UNCHANGED <<pfVars, fdVars, bsVars, mpVars, ciVars, afVars, ipVars, ppVars, iaVars>>

\* one step in which a candidate of lower cost is rejected
RejectCandidate ==
    /\ saPc = "annealing"
    /\ ~Terminal
    /\ \E cand \in SaStates : costFunction[cand] < crntCost
    /\ Cool
    /\ UNCHANGED <<saPc, costFunction, initState, crntState, crntCost, bestState, bestCost,
                   saMaxCoolingIter, saConvRelTol, costSamples, saResult>>
    /\ UNCHANGED <<pfVars, fdVars, bsVars, mpVars, ciVars, afVars, ipVars, ppVars, iaVars>>

\* the best parameter vector and cost are returned
ReturnBest ==
    /\ saPc = "annealing"
    /\ Terminal
    /\ saResult' = [state |-> bestState, cost |-> bestCost]
    /\ saPc' = "returned"
    /\ UNCHANGED <<costFunction, initState, crntState, crntCost, bestState, bestCost, temp,
                   nCoolingIter, saMaxCoolingIter, saConvRelTol, costSamples>>
    /\ UNCHANGED <<pfVars, fdVars, bsVars, mpVars, ciVars, afVars, ipVars, ppVars, iaVars>>

SaNext == AcceptCandidate \/ RejectCandidate \/ ReturnBest

(***************************************************************************)
(* ProbePathFinder::findPath                                               *)
(*                                                                         *)
(* The stepping skeleton shared by the finder variants.  The free distance *)
(* found at a step is a free choice among the grid values.  The step count *)
(* of a step is its number within its direction, starting at 1: a step     *)
(* whose count exceeds the maximum is not taken.                           *)
(***************************************************************************)
FreeDistances == 0..MaxFreeDistance

\* mutant: a direction goes on for one more step
StepCountExceededLate(count) == count > pfMaxProbeSteps + 1

\* the step count exceeds the configured maximum
StepCountExceeded(count) == count > pfMaxProbeSteps

\* the free distance exceeds the configured maximum radius
OpeningReached(freeDist) == freeDist > pfMaxFreeDist

PpIdle ==
    /\ finderState = "idle"
    /\ pfMaxProbeSteps = 0
    /\ pfMaxFreeDist = 0
    /\ numProbeSteps = 0
    /\ forwardRadii = <<>>
    /\ backwardRadii = <<>>
    /\ initRadius = <<>>

PpInit ==
    /\ finderState = "Initial"
    /\ pfMaxProbeSteps \in 0..MaxProbeSteps
    /\ pfMaxFreeDist \in FreeDistances
    /\ numProbeSteps = 0
    /\ forwardRadii = <<>>
    /\ backwardRadii = <<>>
    /\ initRadius = <<>>

\* the initial point is recorded
RecordInitialPoint ==
    /\ finderState = "Initial"
    /\ \E d \in FreeDistances : initRadius' = <<d>>
    /\ finderState' = "SteppingForward"
    /\ UNCHANGED <<pfMaxProbeSteps, pfMaxFreeDist, numProbeSteps, forwardRadii, backwardRadii>>
    /\ UNCHANGED <<pfVars, fdVars, bsVars, mpVars, ciVars, afVars, ipVars, saVars, iaVars>>

\* steps 1 to 4, forward
StepForward ==
    /\ finderState = "SteppingForward"
    /\ IF StepCountExceeded(numProbeSteps + 1)
       THEN /\ finderState' = "SteppingBackward"
            /\ numProbeSteps' = 0
            /\ UNCHANGED forwardRadii
       ELSE \E d \in FreeDistances :
               /\ forwardRadii' = Append(forwardRadii, d)
               /\ IF OpeningReached(d)
                  THEN finderState' = "SteppingBackward" /\ numProbeSteps' = 0
                  ELSE finderState' = finderState /\ numProbeSteps' = numProbeSteps + 1
    /\ UNCHANGED <<pfMaxProbeSteps, pfMaxFreeDist, backwardRadii, initRadius>>
    /\ UNCHANGED <<pfVars, fdVars, bsVars, mpVars, ciVars, afVars, ipVars, saVars, iaVars>>

\* steps 1 to 4, backward
StepBackward ==
    /\ finderState = "SteppingBackward"
    /\ IF StepCountExceeded(numProbeSteps + 1)
       THEN /\ finderState' = "Done"
            /\ numProbeSteps' = 0
            /\ UNCHANGED backwardRadii
       ELSE \E d \in FreeDistances :
               /\ backwardRadii' = Append(backwardRadii, d)
               /\ IF OpeningReached(d)
                  THEN finderState' = "Done" /\ numProbeSteps' = 0
                  ELSE finderState' = finderState /\ numProbeSteps' = numProbeSteps + 1
    /\ UNCHANGED <<pfMaxProbeSteps, pfMaxFreeDist, forwardRadii, initRadius>>
    /\ UNCHANGED <<pfVars, fdVars, bsVars, mpVars, ciVars, afVars, ipVars, saVars, iaVars>>

PpNext == RecordInitialPoint \/ StepForward \/ StepBackward

(***************************************************************************)
(* trajectoryAnalysis::initAnalysis: TRACK C-ALPHAS and RESIDUE INDECES    *)
(*                                                                         *)
(* The vectors are sequences; atom i of the topology is resind[i + 1].     *)
(***************************************************************************)
\* the assignments of residue indices to the atoms 0..nr-1 of a topology
ResidueAssignments == UNION {[1..nr -> 0..MaxResind] : nr \in 1..MaxAtomsNr}

RECURSIVE IndexSeqs(_, _, _)
\* the strictly increasing sequences of n indices within lo..hi
IndexSeqs(n, lo, hi) ==
    IF n = 0 THEN {<<>>}
    ELSE UNION {{<<a>> \o t : t \in IndexSeqs(n - 1, a + 1, hi)} : a \in lo..hi}

\* the atom indices of a selection of at least one atom out of nr
AtomIndexLists(nr) == UNION {IndexSeqs(n, 0, nr - 1) : n \in 1..nr}

RECURSIVE unique(_)
\* std::unique followed by resize: of each run of equal elements the first
unique(v) ==
    IF Len(v) <= 1 THEN v
    ELSE LET rest == unique(Tail(v))
         IN  IF Head(v) = Head(rest) THEN rest ELSE <<Head(v)>> \o rest

\* residueAtomMapping_[resId] after the loop over the atoms
AtomsOfResidue(resId) ==
    SelectSeq([k \in 1..Len(resind) |-> k - 1], LAMBDA a : resind[a + 1] = resId)

\* mutant: every atom is taken to belong to the pore selection
FoundAnywhere(atomIdx, jt) == TRUE

\* std::find(refselAtomIdx.begin(), refselAtomIdx.end(), *jt) != refselAtomIdx.end()
Found(atomIdx, jt) == \E k \in DOMAIN atomIdx : atomIdx[k] = jt

RECURSIVE PoreAtomsUpTo(_), PoreResiduesUpTo(_)
\* poreAtomIndices_ after the first n iterations of the loop over residueIndices_
PoreAtomsUpTo(n) ==
    IF n = 0 THEN <<>>
    ELSE PoreAtomsUpTo(n - 1) \o
         SelectSeq(residueAtomMapping_[residueIndices_[n]],
                   LAMBDA jt : Found(refselAtomIdx, jt))

\* poreResidueIndices_ after the first n iterations of the loop
PoreResiduesUpTo(n) ==
    IF n = 0 THEN <<>>
    ELSE LET resId == residueIndices_[n]
             atomIdx == residueAtomMapping_[resId]
             addResidue == \E k \in DOMAIN atomIdx : Found(refselAtomIdx, atomIdx[k])
         IN  PoreResiduesUpTo(n - 1) \o (IF addResidue THEN <<resId>> ELSE <<>>)

IaIdle ==
    /\ iaPc = "idle"
    /\ resind = <<>>
    /\ refselAtomIdx = <<>>
    /\ residueIndices_ = <<>>
    /\ atomResidueMapping_ = <<>>
    /\ residueAtomMapping_ = <<>>
    /\ poreAtomIndices_ = <<>>
    /\ poreResidueIndices_ = <<>>

\* the module when initAnalysis() is called with a topology and the selection
IaInit ==
    /\ iaPc = "start"
    /\ resind \in ResidueAssignments
    /\ refselAtomIdx \in AtomIndexLists(Len(resind))
    /\ residueIndices_ = <<>>
    /\ atomResidueMapping_ = <<>>
    /\ residueAtomMapping_ = <<>>
    /\ poreAtomIndices_ = <<>>
    /\ poreResidueIndices_ = <<>>

\* the loop through all atoms
TrackResidueIndices ==
    /\ iaPc = "start"
    /\ residueIndices_' = resind
    /\ atomResidueMapping_' = [i \in 0..(Len(resind) - 1) |-> resind[i + 1]]
    /\ residueAtomMapping_' =
           [resId \in {resind[k] : k \in DOMAIN resind} |-> AtomsOfResidue(resId)]
    /\ iaPc' = "tracked"
    /\ UNCHANGED <<resind, refselAtomIdx, poreAtomIndices_, poreResidueIndices_>>
    /\ UNCHANGED <<pfVars, fdVars, bsVars, mpVars, ciVars, afVars, ipVars, saVars, ppVars>>

\* remove duplicate residue indices
RemoveDuplicates ==
    /\ iaPc = "tracked"
    /\ residueIndices_' = unique(residueIndices_)
    /\ iaPc' = "unique"
    /\ UNCHANGED <<resind, refselAtomIdx, atomResidueMapping_, residueAtomMapping_,
                   poreAtomIndices_, poreResidueIndices_>>
    /\ UNCHANGED <<pfVars, fdVars, bsVars, mpVars, ciVars, afVars, ipVars, saVars, ppVars>>

\* the loop over residueIndices_ that collects the pore atoms and residues
FindPoreResidues ==
    /\ iaPc = "unique"
    /\ poreAtomIndices_' = PoreAtomsUpTo(Len(residueIndices_))
    /\ poreResidueIndices_' = PoreResiduesUpTo(Len(residueIndices_))
    /\ iaPc' = "done"
    /\ UNCHANGED <<resind, refselAtomIdx, residueIndices_, atomResidueMapping_,
                   residueAtomMapping_>>
    /\ UNCHANGED <<pfVars, fdVars, bsVars, mpVars, ciVars, afVars, ipVars, saVars, ppVars>>

IaNext == TrackResidueIndices \/ RemoveDuplicates \/ FindPoreResidues

(***************************************************************************)
(* Claims about findMinimalFreeDistance().                                 *)
(***************************************************************************)
\* pairDistance - vdwRadius of one enumerated neighbour
FreeDistanceOf(pair) == RSub(Sqrt(pair.distance2), R(vdwRadii_[pair.refIndex]))

EnumeratedFreeDistances == {FreeDistanceOf(enumerated[k]) : k \in DOMAIN enumerated}

\* C1: for every non-empty neighbour set, every enumeration order and every
\* probe radius >= 0 the returned value is the minimum over all enumerated
\* neighbours of (pairDistance - vdwRadius), the brute-force minimum.
C1_ReturnsBruteForceMinimum ==
    (fdPc = "done" /\ enumerated # <<>>) =>
        /\ minimalFreeDistance \in EnumeratedFreeDistances
        /\ \A d \in EnumeratedFreeDistances : RLe(minimalFreeDistance, d)

\* C6: when the neighbour query enumerates zero neighbours the returned
\* value is positive infinity, never a finite value.
C6_NoNeighboursGivesInfinity ==
    (fdPc = "done" /\ enumerated = <<>>) =>
        /\ minimalFreeDistance = Infinity
        /\ ~IsFinite(minimalFreeDistance)

\* the call has returned for a probe that has reference atoms around it, none
\* of which the pair search returned
C6_Witness ==
    /\ fdPc = "done"
    /\ enumerated = <<>>
    /\ vdwRadii_ # <<>>
    /\ minimalFreeDistance = Infinity

(***************************************************************************)
(* Claims about BasisSpline::evaluate().                                   *)
(***************************************************************************)
RECURSIVE BasisSumUpTo(_, _, _, _)
\* the sum of evaluate(knotVector, degree, i, x) over i = 0 .. last
BasisSumUpTo(knotVector, degree, x, last) ==
    IF last < 0 THEN Zero
    ELSE RAdd(BasisSumUpTo(knotVector, degree, x, last - 1),
              evaluate(knotVector, degree, last, x).value)

BasisSum(knotVector, degree, x) ==
    BasisSumUpTo(knotVector, degree, x, LastBasisIndex(PadKnots(knotVector, degree), degree))

InKnotRange(knotVector, x) == Head(knotVector) <= x /\ x <= Last(knotVector)

\* any two knots are equal or more than machine epsilon apart
WellSeparated(knotVector) ==
    \A j \in 1..(Len(knotVector) - 1) :
        knotVector[j + 1] = knotVector[j] \/ knotVector[j + 1] - knotVector[j] > Epsilon

\* C2 as stated: for any non-decreasing knot vector, any degree >= 0 and any
\* x within the knot range (the last knot included), the values of all basis
\* functions at x add up to 1.
C2_PartitionOfUnityAnyKnots ==
    (bsPc = "returned" /\ InKnotRange(bsKnotVector, bsEvalPoint)) =>
        BasisSum(bsKnotVector, bsDegree, bsEvalPoint) = One

\* C2 as amended: the values of all basis functions at x add up to 1 for any
\* non-decreasing knot vector whose knots are pairwise equal or more than
\* machine epsilon apart, any degree >= 0 and any x within the knot range.
C2_PartitionOfUnity ==
    (/\ bsPc = "returned"
     /\ InKnotRange(bsKnotVector, bsEvalPoint)
     /\ WellSeparated(bsKnotVector)) =>
        BasisSum(bsKnotVector, bsDegree, bsEvalPoint) = One

\* a cubic basis function evaluated strictly between two separated knots,
\* taking a value strictly between 0 and 1
C2_Witness ==
    /\ bsPc = "returned"
    /\ bsDegree = 3
    /\ WellSeparated(bsKnotVector)
    /\ Head(bsKnotVector) < bsEvalPoint
    /\ bsEvalPoint < Last(bsKnotVector)
    /\ \A j \in DOMAIN bsKnotVector : bsKnotVector[j] # bsEvalPoint
    /\ bsRecursed
    /\ RLt(Zero, bsValue)
    /\ RLt(bsValue, One)

\* x lies outside the half-open support [t_i, t_{i+degree+1}) of the basis
\* function `interval` over the padded knot vector
OutsideSupport ==
    \/ bsEvalPoint < knotVector_[bsInterval + 1]
    \/ bsEvalPoint >= knotVector_[bsInterval + bsDegree + 2]

AtFinalKnot == bsEvalPoint = Last(knotVector_)

\* C3 as stated: the returned value lies in [0, 1] and is exactly 0 whenever
\* x lies outside the support [t_i, t_{i+degree+1}).
C3_UnitRangeAndHalfOpenSupport ==
    bsPc = "returned" =>
        /\ RLe(Zero, bsValue)
        /\ RLe(bsValue, One)
        /\ OutsideSupport => bsValue = Zero

\* C3 as amended: the returned value lies in [0, 1] and is exactly 0 whenever
\* x lies outside the support [t_i, t_{i+degree+1}), except at x equal to the
\* final padded knot, where the last basis function returns 1.
C3_UnitRangeAndSupport ==
    bsPc = "returned" =>
        /\ RLe(Zero, bsValue)
        /\ RLe(bsValue, One)
        /\ (OutsideSupport /\ ~AtFinalKnot) => bsValue = Zero
        /\ (OutsideSupport /\ AtFinalKnot) =>
              bsValue = (IF bsInterval = Len(knotVector_) - bsDegree - 2 THEN One ELSE Zero)

\* the recursion has returned 0 for a point inside the knot range and
\* outside the support of a basis function of positive degree
C3_Witness ==
    /\ bsPc = "returned"
    /\ bsDegree > 0
    /\ bsRecursed
    /\ InKnotRange(bsKnotVector, bsEvalPoint)
    /\ OutsideSupport
    /\ bsValue = Zero

\* C4: at x equal to the final knot of the padded knot vector evaluate()
\* returns 1 for the last basis function, interval = len(padded) - degree - 2,
\* and 0 for every other interval, without entering the recursion.
C4_FinalKnotSpecialCase ==
    (bsPc = "returned" /\ bsEvalPoint = Last(PadKnots(bsKnotVector, bsDegree))) =>
        /\ ~bsRecursed
        /\ bsInterval = Len(knotVector_) - bsDegree - 2 => bsValue = One
        /\ bsInterval # Len(knotVector_) - bsDegree - 2 => bsValue = Zero

\* evaluate() has returned 1 for the last basis function at the final knot
C4_Witness ==
    /\ bsPc = "returned"
    /\ bsDegree > 0
    /\ bsEvalPoint = Last(knotVector_)
    /\ bsInterval = Len(knotVector_) - bsDegree - 2
    /\ bsValue = One
    /\ ~bsRecursed

\* C17: evaluate() called with degree < 0 aborts and returns no value; with
\* degree >= 0 it never aborts.
C17_AbortsIffDegreeNegative ==
    /\ bsPc = "aborted" =>
           /\ bsDegree < 0
           /\ bsValue = Zero
           /\ knotVector_ = <<>>
           /\ ~bsRecursed
    /\ bsPc = "returned" => bsDegree >= 0
    /\ bsPc = "call" =>
           (evaluate(bsKnotVector, bsDegree, bsInterval, bsEvalPoint).aborted <=> bsDegree < 0)

\* evaluate() was called with a negative degree and aborted
C17_Witness ==
    /\ bsPc = "aborted"
    /\ bsDegree < 0

\* C18: in the recursion a prefactor whose denominator is at or below machine
\* epsilon contributes weight 0, so evaluation over knot vectors with repeated
\* knots never divides by zero and always yields a finite value.
C18_NoDivisionByZero ==
    /\ \A num \in (-MaxKnot)..MaxKnot, den \in 0..Epsilon : Prefactor(num, den) = Zero
    /\ bsPc = "returned" => IsFinite(bsValue)

\* the recursion ran over a knot vector with a repeated knot, at a degree
\* where the zero denominators occur, and returned a non-zero value
C18_Witness ==
    /\ bsPc = "returned"
    /\ bsRecursed
    /\ bsDegree >= 1
    /\ \E i \in 1..(Len(bsKnotVector) - 1) : bsKnotVector[i] = bsKnotVector[i + 1]
    /\ IsFinite(bsValue)
    /\ bsValue # Zero

(***************************************************************************)
(* Claims about the constructor of AbstractProbePathFinder.                *)
(***************************************************************************)
\* C7: the constructor completes (reaches the initialisation of the
\* neighbourhood search) if and only if the parameter map holds all four
\* keys; with a key missing it aborts, and the member of a missing key is
\* never assigned a default.
C7_ConstructorNeedsAllParams ==
    /\ ctorPc \in {"initSearch", "constructed"} => ParamKeys \subseteq DOMAIN params
    /\ ctorPc \in {"constructed", "aborted"} =>
          (ctorPc = "constructed" <=> ParamKeys \subseteq DOMAIN params)
    /\ ctorAssigned \subseteq DOMAIN params
    /\ ctorPc = "aborted" => nbhCutoff = -1

\* a construction that was aborted on a missing key after earlier keys were
\* read
C7_WitnessAborted ==
    /\ ctorPc = "aborted"
    /\ ctorAssigned # {}
    /\ ~(ParamKeys \subseteq DOMAIN params)


(***************************************************************************)
(* Claims about MolecularPath.                                             *)
(***************************************************************************)
\* C8: checkIfInside() classifies a mapped point (s, rho, phi) as inside if
\* and only if rho < radius(s) + margin, for every margin the caller passes.
C8_InsideIffBelowRadiusPlusMargin ==
    mpOp = "checkIfInside" =>
        \A id \in DOMAIN mappedCoords :
            isInside[id] <=>
                mappedCoords[id][2] < poreRadius_[mappedCoords[id][1]] + margin

EquallySpaced(sample) ==
    \A i, j \in 1..(Len(sample) - 1) :
        RSub(sample[i + 1], sample[i]) = RSub(sample[j + 1], sample[j])

SpansOpenings(sample) ==
    /\ sample[1] = R(openingLo_ - extrapDist)
    /\ sample[Len(sample)] = R(openingHi_ + extrapDist)

\* C10 as stated: for every nPoints >= 1 and extrapDist >= 0,
\* sampleArcLength() returns exactly nPoints equally spaced values, the first
\* openingLo - extrapDist and the last openingHi + extrapDist.
C10_SampleSpansOpeningsFromOnePoint ==
    (mpOp = "sampleArcLength" /\ nPoints >= 1) =>
        /\ Len(arcLengthSample) = nPoints
        /\ EquallySpaced(arcLengthSample)
        /\ SpansOpenings(arcLengthSample)

\* C10 restricted to nPoints >= 2: there the statement holds.
C10_SampleSpansOpenings ==
    (mpOp = "sampleArcLength" /\ nPoints >= 2) =>
        /\ Len(arcLengthSample) = nPoints
        /\ EquallySpaced(arcLengthSample)
        /\ SpansOpenings(arcLengthSample)

\* C11: mapSelection() omits from its result every position whose curvilinear
\* inversion does not converge and every position with no centre line point
\* within the search cutoff; the result's keys are refIds of input positions.
C11_UnmappablePositionsOmitted ==
    mpOp = "mapSelection" =>
        /\ DOMAIN mapSelMapped \subseteq DOMAIN mapSel
        /\ \A id \in DOMAIN mapSel :
              (~mapSel[id].pairValid \/ ~mapSel[id].converged) => id \notin DOMAIN mapSelMapped

LengthIsOpeningDistance ==
    mpPc = "constructed" =>
        /\ length_ = Abs(openingHi_ - openingLo_)
        /\ length_ >= 0
        /\ openingLo_ = arcLen[1]
        /\ openingHi_ = arcLen[2]

QueriesKeepLength ==
    mpPc = "constructed" =>
        /\ length_' = length_
        /\ openingLo_' = openingLo_
        /\ openingHi_' = openingHi_

\* C12: after construction length() equals |openingHi - openingLo| (so it is
\* not negative), openingLo and openingHi being the arc lengths at the first
\* and the last path point; no sampling, mapping or checkIfInside call changes
\* length, openingLo or openingHi.
C12_LengthIsOpeningDistance == [](LengthIsOpeningDistance) /\ [][QueriesKeepLength]_vars

\* a path of positive length has been sampled
C12_Witness ==
    /\ mpPc = "constructed"
    /\ mpOp = "sampleArcLength"
    /\ openingLo_ < openingHi_
    /\ length_ = openingHi_ - openingLo_

RadiusFitted == poreRadius_ # <<>>

ReparametrisedOnceBeforeReturn ==
    /\ arcLengthParamCalls <= 1
    /\ mpPc = "constructed" => (arcLengthParamCalls = 1 /\ centreLine_ = "arcLength")
    /\ mpOp # "none" => mpPc = "constructed"

\* C13 as stated: the constructor fits the centre line, reparametrises it by
\* arc length and then fits the radius spline against the arc length values;
\* the reparametrisation happens exactly once and before the constructor
\* returns.
C13_ReparametrisedBeforeRadiusFit ==
    /\ centreLine_ = "arcLength" => arcLen # <<>>
    /\ RadiusFitted => centreLine_ = "arcLength"
    /\ ReparametrisedOnceBeforeReturn

\* C13 as amended: the constructor fits the centre line, takes the arc lengths
\* at its control points, fits the radius spline against them and then
\* reparametrises the centre line by arc length; the reparametrisation happens
\* exactly once and before the constructor returns.
C13_RadiusFitBeforeReparametrisation ==
    /\ arcLen # <<>> => centreLine_ # "unset"
    /\ RadiusFitted => arcLen # <<>>
    /\ centreLine_ = "arcLength" => RadiusFitted
    /\ ReparametrisedOnceBeforeReturn

\* the constructor has returned and a member function has been called
C13_Witness ==
    /\ mpPc = "constructed"
    /\ mpOp # "none"
    /\ RadiusFitted
    /\ centreLine_ = "arcLength"
    /\ arcLengthParamCalls = 1

(***************************************************************************)
(* Claims about cubic spline interpolation.                                *)
(***************************************************************************)
\* C5: cubic interpolation is exact: for abscissas x (n >= 3, strictly
\* increasing) and values f, the spline obtained by solving the system that
\* assembleDiagonals()/assembleRhs() assemble over the knot vector of
\* prepareKnotVector() satisfies spline(x_i) = f_i for every data index i.
C5_InterpolationIsExact ==
    ciPc = "solved" =>
        \A i \in 1..Len(dataX) :
            splineCurve(interpKnotVector, coefs, dataX[i]) = R(dataF[i])

\* C14: a spline built from n data points has
\* len(control points) = len(knots) - degree - 1: prepareKnotVector() yields
\* n + 6 knots, x with its first and its last element each repeated 3 extra
\* times in unchanged order, and the system has n + 2 unknowns with degree 3.
C14_ControlPointsMatchKnots ==
    LET n == Len(dataX)
    IN  /\ degree_ = 3
        /\ ciPc \in {"knots", "diagonals", "rhs", "assembled", "solved"} =>
               /\ Len(interpKnotVector) = n + 6
               /\ \A i \in 1..3 : interpKnotVector[i] = dataX[1]
               /\ \A i \in 1..n : interpKnotVector[3 + i] = dataX[i]
               /\ \A i \in 1..3 : interpKnotVector[n + 3 + i] = dataX[n]
        /\ ciPc \in {"diagonals", "assembled", "solved"} =>
               /\ DOMAIN mainDiag = 0..(n + 1)
               /\ DOMAIN subDiag = 0..n
               /\ DOMAIN superDiag = 0..n
        /\ ciPc \in {"rhs", "assembled", "solved"} => DOMAIN rhsVec = 0..(n + 1)
        /\ ciPc = "solved" =>
               /\ DOMAIN coefs = 0..(n + 1)
               /\ Cardinality(DOMAIN coefs) = Len(interpKnotVector) - degree_ - 1

\* a spline has been built from three data points
C14_Witness ==
    /\ ciPc = "solved"
    /\ Len(dataX) = 3
    /\ Len(interpKnotVector) = 9
    /\ Cardinality(DOMAIN coefs) = 5

\* the slope of the data between points i and j
Slope(xs, fs, i, j) == RDiv(R(fs[j] - fs[i]), R(xs[j] - xs[i]))

\* the second divided difference of the first three data points
Curvature(xs, fs) ==
    RDiv(RSub(Slope(xs, fs, 2, 3), Slope(xs, fs, 1, 2)), R(xs[3] - xs[1]))

\* the polynomial of degree <= 2 through the first three data points, in
\* Newton's form, and its derivative
Parabola(xs, fs, at) ==
    RAdd(R(fs[1]),
         RAdd(RMul(Slope(xs, fs, 1, 2), R(at - xs[1])),
              RMul(Curvature(xs, fs), R((at - xs[1]) * (at - xs[2])))))

ParabolaDeriv(xs, fs, at) ==
    RAdd(Slope(xs, fs, 1, 2), RMul(Curvature(xs, fs), R(2 * at - xs[1] - xs[2])))

OnParabola(xs, fs) == \A i \in 1..Len(xs) : Parabola(xs, fs, xs[i]) = R(fs[i])

\* C15: for data on a polynomial of degree <= 2 with distinct abscissas the
\* parabolic estimateEndpointDeriv() returns the exact derivative of the
\* polynomial at x_0 and at x_{n-1}, and assembleRhs() places the two in
\* rhs[0] and rhs[n+1].
C15_ParabolicEstimateIsExact ==
    (ciPc \in {"rhs", "assembled", "solved"} /\ OnParabola(dataX, dataF)) =>
        LET n == Len(dataX)
        IN  /\ estimateEndpointDeriv(dataX, dataF, "eSplineInterpEndpointLo",
                                     "eSplineInterpDerivParabolic")
                  = ParabolaDeriv(dataX, dataF, dataX[1])
            /\ estimateEndpointDeriv(dataX, dataF, "eSplineInterpEndpointHi",
                                     "eSplineInterpDerivParabolic")
                  = ParabolaDeriv(dataX, dataF, dataX[n])
            /\ rhsVec[0] = ParabolaDeriv(dataX, dataF, dataX[1])
            /\ rhsVec[n + 1] = ParabolaDeriv(dataX, dataF, dataX[n])

\* the right-hand side has been assembled for data on a curved parabola,
\* where the derivative at the low end is not the slope of the first secant
C15_Witness ==
    /\ ciPc = "assembled"
    /\ OnParabola(dataX, dataF)
    /\ Curvature(dataX, dataF) # Zero
    /\ rhsVec[0] # Slope(dataX, dataF, 1, 2)
    /\ rhsVec[0] = ParabolaDeriv(dataX, dataF, dataX[1])

NothingAssembled ==
    /\ subDiag = <<>>
    /\ mainDiag = <<>>
    /\ superDiag = <<>>
    /\ rhsVec = <<>>
    /\ coefs = <<>>
    /\ ciWrites = <<>>

\* C16: with any boundary condition other than Hermite, assembleDiagonals()
\* and assembleRhs() both abort before any interior row or right-hand-side
\* entry is written; no system is produced.
C16_OnlyHermiteIsAssembled ==
    /\ bc # "eSplineInterpBoundaryHermite" =>
           /\ NothingAssembled
           /\ ciPc \in {"idle", "start", "estimated", "knots",
                         "aborted in assembleDiagonals", "aborted in assembleRhs"}
    /\ ciPc \in {"aborted in assembleDiagonals", "aborted in assembleRhs"} =>
           bc # "eSplineInterpBoundaryHermite"

\* assembleRhs() was called with natural boundary conditions and aborted
C16_Witness ==
    /\ bc = "eSplineInterpBoundaryNatural"
    /\ ciPc = "aborted in assembleRhs"
    /\ NothingAssembled

(***************************************************************************)
(* Claims about analyzeFrame().                                            *)
(***************************************************************************)
\* C19: the radii list handed to the path finder is index-aligned with the
\* reference positions: one entry per atom of the reference selection, entry
\* i the van der Waals radius of the topology atom position i maps to, so
\* every refIndex of the neighbour search is a valid index into the list.
C19_RadiiAlignedWithPositions ==
    \A f \in DOMAIN afPc :
        afPc[f] \in {"path finder", "path written"} =>
            /\ Len(selVdwRadii[f]) = Len(refSelection)
            /\ \A i \in 0..(Len(refSelection) - 1) :
                  selVdwRadii[f][i + 1] = topVdwRadii[refSelection[i + 1]]
            /\ \A refIndex \in 0..(Len(refSelection) - 1) :
                  (refIndex + 1) \in DOMAIN selVdwRadii[f]

\* a path finder was created for a selection that does not start at the first
\* topology atom and whose atom has another radius than the first atom
C19_Witness ==
    \E f \in DOMAIN afPc :
        /\ afPc[f] = "path finder"
        /\ refSelection[1] # 0
        /\ topVdwRadii[refSelection[1]] # topVdwRadii[0]
        /\ selVdwRadii[f][1] = topVdwRadii[refSelection[1]]

\* C20: frames analysed concurrently share no mutable state: no step of
\* analyzeFrame() for one frame writes a variable or resource that
\* analyzeFrame() for another frame reads or writes.
C20_FramesShareNoMutableState ==
    \A r \in DOMAIN writers :
        writers[r] # {} => Cardinality(accessors[r]) <= 1

(***************************************************************************)
(* Claims about the initial probe position.                                *)
(***************************************************************************)
RECURSIVE SeqSum(_, _)
SeqSum(f, S) ==
    IF S = {} THEN 0 ELSE LET a == CHOOSE b \in S : TRUE IN f[a] + SeqSum(f, S \ {a})

\* the mass-weighted centre of the atoms of sel in the frame analysed last
MassWeightedCentre(sel) ==
    LET atoms == {sel[i] : i \in DOMAIN sel}
        mx == [a \in atoms |-> atomMass[a] * frameX[a]]
    IN  Norm(SeqSum(mx, atoms), SeqSum(atomMass, atoms))

\* an explicitly set position is left as it is by every step
ExplicitPosKept == (ipPc \in {"frame", "done"} /\ ipIsSet) => ipPos' = ipPos

\* C21: if init-probe-pos was set explicitly the initial probe position is
\* the option's value in every frame (step 1); otherwise, after each frame's
\* update, it is the mass-weighted centre of the ippsel selection when ippsel
\* is set and of the reference selection when it is not (state 2).
C21_InitProbePosPerFrame ==
    /\ [][ExplicitPosKept]_vars
    /\ [](ipPc = "done" /\ ~ipIsSet =>
            ipPos = IF ippselIsSet_ THEN MassWeightedCentre(ippsel_)
                                    ELSE MassWeightedCentre(refsel_))

\* a second frame analysed without init-probe-pos, with ippsel set to a
\* selection of atoms of different masses and positions, other than reference
C21_Witness ==
    /\ ipPc = "done"
    /\ frnr = 2
    /\ ~ipIsSet
    /\ ippselIsSet_
    /\ ippsel_ # refsel_
    /\ Len(ippsel_) = 2
    /\ atomMass[ippsel_[1]] # atomMass[ippsel_[2]]
    /\ frameX[ippsel_[1]] # frameX[ippsel_[2]]

(***************************************************************************)
(* Claims about the simulated-annealing optimizer.                         *)
(***************************************************************************)
\* C22: the optimizer returns the best cost observed over the whole run,
\* which is never lower than the cost of the initial candidate, whatever the
\* objective, the random choices, the temperature and the iteration cap.
C22_BestCostNotBelowInitial ==
    saPc = "returned" =>
        /\ saResult.cost >= costFunction[initState]
        /\ saResult.cost = costFunction[saResult.state]
        /\ saResult.cost >= crntCost

\* a run that accepted a candidate worse than the initial one and returned
C22_Witness ==
    /\ saPc = "returned"
    /\ nCoolingIter > 0
    /\ crntCost < costFunction[initState]
    /\ saResult.cost >= costFunction[initState]

(***************************************************************************)
(* Claims about findPath().                                                *)
(***************************************************************************)
\* a direction has stopped at the first point beyond the maximum radius, or
\* before the first step whose count is beyond the maximum
StoppedAsSoonAsExceeded(radii) ==
    /\ \A k \in 1..(Len(radii) - 1) : radii[k] <= pfMaxFreeDist
    /\ \/ radii # <<>> /\ radii[Len(radii)] > pfMaxFreeDist
       \/ Len(radii) = pfMaxProbeSteps

\* each direction has stopped by its own free distances and step count
DirectionsStopIndependently ==
    /\ finderState \in {"SteppingBackward", "Done"} => StoppedAsSoonAsExceeded(forwardRadii)
    /\ finderState = "Done" => StoppedAsSoonAsExceeded(backwardRadii)
    /\ finderState = "SteppingForward" => backwardRadii = <<>>

TimesWritten(array, index) ==
    Cardinality({k \in DOMAIN ciWrites : ciWrites[k] = <<array, index>>})

EveryEntryWrittenOnce ==
    /\ \A i \in DOMAIN subDiag : TimesWritten("subDiag", i) = 1
    /\ \A i \in DOMAIN mainDiag : TimesWritten("mainDiag", i) = 1
    /\ \A i \in DOMAIN superDiag : TimesWritten("superDiag", i) = 1
    /\ \A i \in DOMAIN rhsVec : TimesWritten("rhsVec", i) = 1
    /\ Len(ciWrites) = 3 * (Len(dataX) + 2) - 2 + (Len(dataX) + 2)

\* C24: for n data points, rhs[i+1] = f[i] for every i in 0..n-1 and the two
\* endpoint-derivative estimates are in rhs[0] and rhs[n+1]; for each
\* interior row, subDiag[i] = B_i(x_i), mainDiag[i+1] = B_{i+1}(x_i) and
\* superDiag[i+1] = B_{i+2}(x_i); the boundary rows hold the first derivatives
\* of the basis functions at x_0 and x_{n-1}; every entry of the three
\* diagonals and of rhs is written exactly once.
C24_SystemAssembly ==
    ciPc = "assembled" =>
        LET n == Len(dataX)
            kv == interpKnotVector
        IN  /\ DOMAIN rhsVec = 0..(n + 1)
            /\ DOMAIN mainDiag = 0..(n + 1)
            /\ DOMAIN subDiag = 0..n
            /\ DOMAIN superDiag = 0..n
            /\ \A i \in 0..(n - 1) :
                  /\ rhsVec[i + 1] = R(dataF[i + 1])
                  /\ subDiag[i] = B(kv, degree_, i, dataX[i + 1])
                  /\ mainDiag[i + 1] = B(kv, degree_, i + 1, dataX[i + 1])
                  /\ superDiag[i + 1] = B(kv, degree_, i + 2, dataX[i + 1])
            /\ rhsVec[0] = estimateEndpointDeriv(dataX, dataF, "eSplineInterpEndpointLo",
                                                 "eSplineInterpDerivParabolic")
            /\ rhsVec[n + 1] = estimateEndpointDeriv(dataX, dataF, "eSplineInterpEndpointHi",
                                                     "eSplineInterpDerivParabolic")
            /\ mainDiag[0] = D(kv, degree_, 0, dataX[1], 1)
            /\ superDiag[0] = D(kv, degree_, 1, dataX[1], 1)
            /\ subDiag[n] = D(kv, degree_, n, dataX[n], 1)
            /\ mainDiag[n + 1] = D(kv, degree_, n + 1, dataX[n], 1)
            /\ EveryEntryWrittenOnce

\* a system assembled, right-hand side first, from data of which the first
\* value differs from the others
C24_Witness ==
    /\ ciPc = "assembled"
    /\ ciWrites[1] = <<"rhsVec", 0>>
    /\ Len(dataX) = 3
    /\ dataF[1] # dataF[2]
    /\ rhsVec[1] # rhsVec[2]

\* the slope of the secant through the points k and k + 1 of the data
SecantSlope(k) == Norm(dataF[k + 1] - dataF[k], dataX[k + 1] - dataX[k])

\* C25: with the simple finite-difference method estimateEndpointDeriv()
\* returns the secant slope of the data between the endpoint and its
\* neighbour, (f_1 - f_0)/(x_1 - x_0) at the low endpoint and
\* (f_{n-1} - f_{n-2})/(x_{n-1} - x_{n-2}) at the high endpoint.
C25_SimpleEstimateIsSecantSlope ==
    (ciPc = "estimated" /\ derivArgs[2] = "eSplineInterpDerivSimple") =>
        derivEstimate = IF derivArgs[1] = "eSplineInterpEndpointLo"
                        THEN SecantSlope(1)
                        ELSE SecantSlope(Len(dataX) - 1)

(***************************************************************************)
(* Claims about initAnalysis().                                            *)
(***************************************************************************)
\* the elements of a sequence
Elements(v) == {v[k] : k \in DOMAIN v}

NoDuplicates(v) == \A j, k \in DOMAIN v : v[j] = v[k] => j = k

\* the atoms of each residue follow one another in atom order, as in a
\* topology read from a structure file
ResiduesContiguous ==
    \A i, j, k \in DOMAIN resind : (i < j /\ j < k /\ resind[i] = resind[k]) =>
                                       resind[j] = resind[i]

C30_ResidueIndicesUnique ==
    iaPc \in {"unique", "done"} =>
        /\ Elements(residueIndices_) = Elements(resind)
        /\ NoDuplicates(residueIndices_)

(***************************************************************************)
(* Claims about the order of the pair search.                              *)
(***************************************************************************)
RECURSIVE FreeDistanceAfter(_)
\* the value of minimalFreeDistance after the loop has run over the pairs o
FreeDistanceAfter(o) ==
    IF o = <<>> THEN InitialFreeDistance
    ELSE UpdateFreeDistance(FreeDistanceAfter(SubSeq(o, 1, Len(o) - 1)), o[Len(o)],
                            probeRadius_)

\* C27: the value findMinimalFreeDistance() returns does not depend on the
\* order in which the pair search enumerates the neighbours: for a fixed
\* neighbour set, radii and probe radius every permutation of the
\* enumeration yields the same result.
C27_EnumerationOrderIrrelevant ==
    fdPc = "done" =>
        \A o \in Orderings({enumerated[k] : k \in DOMAIN enumerated}) :
            FreeDistanceAfter(o) = minimalFreeDistance

(***************************************************************************)
(* Claims about the band of the assembled system.                          *)
(***************************************************************************)
\* C28: for strictly increasing abscissas x (n >= 3) and the knot vector the
\* interpolator builds from x, every interior row of the assembled system
\* sums to 1: subDiag[i] + mainDiag[i+1] + superDiag[i+1] = 1 for i in
\* 0..n-1, the first and the last data point included.
C28_InteriorRowsSumToOne ==
    ciPc \in {"diagonals", "assembled", "solved"} =>
        \A i \in 0..(Len(dataX) - 1) :
            RAdd(RAdd(subDiag[i], mainDiag[i + 1]), superDiag[i + 1]) = One

(***************************************************************************)
(* Claims about the path finder of a frame.                                *)
(***************************************************************************)
\* C29: in analyzeFrame() findPath() and getMolecularPath() are only ever
\* invoked on a constructed path finder: for every value of the option
\* pf-method one of the three finder variants has been created before
\* findPath() is called.
C29_FindPathOnConstructedFinder ==
    \A f \in DOMAIN afPc :
        afPc[f] \in {"path written", "findPath on nullptr"} => pfm[f] # "nullptr"

(***************************************************************************)
(* Specifications.                                                         *)
(***************************************************************************)
InitConstructor ==
    /\ CtorInit
    /\ FdIdle
    /\ BsIdle
    /\ MpIdle
    /\ CiIdle
    /\ AfIdle
    /\ IpIdle
    /\ SaIdle
    /\ PpIdle
    /\ IaIdle

SpecConstructor == InitConstructor /\ [][CtorNext]_vars

InitFreeDistance ==
    /\ FdInit
    /\ CtorIdle
    /\ BsIdle
    /\ MpIdle
    /\ CiIdle
    /\ AfIdle
    /\ IpIdle
    /\ SaIdle
    /\ PpIdle
    /\ IaIdle

InitBasisSpline ==
    /\ BsInit
    /\ CtorIdle
    /\ FdIdle
    /\ MpIdle
    /\ CiIdle
    /\ AfIdle
    /\ IpIdle
    /\ SaIdle
    /\ PpIdle
    /\ IaIdle

SpecBasisSpline == InitBasisSpline /\ [][BsNext]_vars

InitMolecularPath ==
    /\ MpInit
    /\ CtorIdle
    /\ FdIdle
    /\ BsIdle
    /\ CiIdle
    /\ AfIdle
    /\ IpIdle
    /\ SaIdle
    /\ PpIdle
    /\ IaIdle

SpecMolecularPath == InitMolecularPath /\ [][MpNext]_vars

InitCubicSplineInterp ==
    /\ CiInit
    /\ CtorIdle
    /\ FdIdle
    /\ BsIdle
    /\ MpIdle
    /\ AfIdle
    /\ IpIdle
    /\ SaIdle
    /\ PpIdle
    /\ IaIdle

SpecCubicSplineInterp == InitCubicSplineInterp /\ [][CiNext]_vars

InitAnalyzeFrame ==
    /\ AfInit
    /\ CtorIdle
    /\ FdIdle
    /\ BsIdle
    /\ MpIdle
    /\ CiIdle
    /\ IpIdle
    /\ SaIdle
    /\ PpIdle
    /\ IaIdle

SpecAnalyzeFrame == InitAnalyzeFrame /\ [][AfNext]_vars

SpecFreeDistance == InitFreeDistance /\ [][FdNext]_vars

InitInitProbePos ==
    /\ IpInit
    /\ FdIdle
    /\ BsIdle
    /\ MpIdle
    /\ CiIdle
    /\ AfIdle
    /\ CtorIdle
    /\ SaIdle
    /\ PpIdle
    /\ IaIdle

SpecInitProbePos == InitInitProbePos /\ [][IpNext]_vars

InitSimulatedAnnealing ==
    /\ SaInit
    /\ FdIdle
    /\ BsIdle
    /\ MpIdle
    /\ CiIdle
    /\ AfIdle
    /\ IpIdle
    /\ CtorIdle
    /\ PpIdle
    /\ IaIdle

SpecSimulatedAnnealing == InitSimulatedAnnealing /\ [][SaNext]_vars

InitPathFinding ==
    /\ PpInit
    /\ FdIdle
    /\ BsIdle
    /\ MpIdle
    /\ CiIdle
    /\ AfIdle
    /\ IpIdle
    /\ SaIdle
    /\ CtorIdle
    /\ IaIdle

\* findPath() runs to its end once called
SpecPathFinding == InitPathFinding /\ [][PpNext]_vars /\ WF_vars(PpNext)

InitInitAnalysis ==
    /\ IaInit
    /\ FdIdle
    /\ BsIdle
    /\ MpIdle
    /\ CiIdle
    /\ AfIdle
    /\ IpIdle
    /\ SaIdle
    /\ PpIdle
    /\ CtorIdle

SpecInitAnalysis == InitInitAnalysis /\ [][IaNext]_vars

Init ==
    /\ CtorInit
    /\ FdInit
    /\ BsInit
    /\ MpInit
    /\ CiInit
    /\ AfInit
    /\ IpInit
    /\ SaInit
    /\ PpInit
    /\ IaInit

Next == CtorNext \/ FdNext \/ BsNext \/ MpNext \/ CiNext \/ AfNext \/ IpNext \/ SaNext \/ PpNext \/ IaNext

Spec == Init /\ [][Next]_vars
=============================================================================
